---------------------------- MODULE Spec2Model ----------------------------
(***************************************************************************)
(* A model of the vecmath library (Vector3, Matrix3, their operators and   *)
(* circle3pts) in the Vector3f / Matrix3f instantiation.                   *)
(*                                                                         *)
(* Scalars are IEEE-754 binary32 values with round-to-nearest-even, the    *)
(* arithmetic of `float` on the platforms the library is built for.  A     *)
(* finite scalar is a record [k |-> "fin", s, m, e] standing for           *)
(* (-1)^s * m * 2^e with m = 0 or 2^23 <= m < 2^24; k = "inf" and           *)
(* k = "nan" are the infinities and NaN.  A result too large for          *)
(* binary32 (m * 2^e with e > 104) is an infinity.  The exponent is not    *)
(* bounded below: underflow and subnormals are outside the model (every    *)
(* value used is zero or at least 2^-100 in magnitude).                    *)
(***************************************************************************)
EXTENDS Integers, Sequences, FiniteSets, TLC

(***************************************************************************)
(* binary32 arithmetic                                                     *)
(***************************************************************************)
Zero(s) == [k |-> "fin", s |-> s, m |-> 0, e |-> 0]
Inf(s)  == [k |-> "inf", s |-> s, m |-> 0, e |-> 0]
NaN     == [k |-> "nan", s |-> 0, m |-> 0, e |-> 0]

IsNaN(x)    == x.k = "nan"
IsInf(x)    == x.k = "inf"
IsZero(x)   == x.k = "fin" /\ x.m = 0

RECURSIVE BitLen(_)
BitLen(n) == IF n = 0 THEN 0 ELSE 1 + BitLen(n \div 2)

(* Round the magnitude M * 2^e (0 < M < 2^31; `sticky` says that non-zero  *)
(* bits were dropped below M) to 24 significant bits, ties to even.        *)
(* RoundCarry: the rounded significand q1 may have reached 2^24.           *)
(* Overflow: a significand of 24 bits with an exponent above 104 is past   *)
(* the largest float, (2^24 - 1) * 2^104.                                  *)
Overflow(s, m, e) ==
    IF e > 104 THEN Inf(s) ELSE [k |-> "fin", s |-> s, m |-> m, e |-> e]
RoundCarry(s, q1, e) ==
    IF q1 = 16777216
    THEN Overflow(s, 8388608, e + 1)
    ELSE Overflow(s, q1, e)

(* RoundTie: q is the kept part, r the dropped part, half its midpoint. *)
RoundTie(s, q, r, half, e, sticky) ==
    IF r > half \/ (r = half /\ (sticky \/ q % 2 = 1))
    THEN RoundCarry(s, q + 1, e)
    ELSE RoundCarry(s, q, e)

(* RoundShift: drop the sh low bits of M. *)
RoundShift(s, M, e, sticky, sh) ==
    RoundTie(s, M \div 2^sh, M % 2^sh, 2^(sh - 1), e + sh, sticky)

(* RoundBits: n is the bit length of M. *)
RoundBits(s, M, e, sticky, n) ==
    IF M = 0 THEN Zero(s)
    ELSE IF n <= 24
    THEN Overflow(s, M * 2^(24 - n), e - (24 - n))
    ELSE RoundShift(s, M, e, sticky, n - 24)

RoundPack(s, M, e, sticky) == RoundBits(s, M, e, sticky, BitLen(M))

(* int -> float conversion of a literal, |n| < 2^31 *)
FromInt(n) == IF n < 0 THEN RoundPack(1, -n, 0, FALSE)
                       ELSE RoundPack(0, n, 0, FALSE)

FNeg(x) == IF IsNaN(x) THEN x ELSE [x EXCEPT !.s = 1 - x.s]
FAbs(x) == IF IsNaN(x) THEN x ELSE [x EXCEPT !.s = 0]

(* Sum of two finite non-zero magnitudes carrying signs; x.e >= y.e.       *)
(* AddMags: the magnitudes with six guard bits, Y already shifted to x's   *)
(* exponent and st telling that the shift dropped non-zero bits.           *)
AddMags(xs, ys, e, X, Y, st) ==
    IF xs = ys
    THEN RoundPack(xs, X + Y, e - 6, st)
    ELSE IF st
         THEN (* |x| > |y| here: the dropped bits borrow one unit *)
              RoundPack(xs, X - Y - 1, e - 6, TRUE)
         ELSE IF X = Y THEN Zero(0)
         ELSE IF X > Y THEN RoundPack(xs, X - Y, e - 6, FALSE)
         ELSE RoundPack(ys, Y - X, e - 6, FALSE)

AddShift(x, y, d) ==
    IF d >= 31
    THEN AddMags(x.s, y.s, x.e, x.m * 64, 0, TRUE)
    ELSE AddMags(x.s, y.s, x.e, x.m * 64, (y.m * 64) \div 2^d,
                 (y.m * 64) % 2^d # 0)

AddAligned(x, y) == AddShift(x, y, x.e - y.e)

FAdd(x, y) ==
    IF IsNaN(x) \/ IsNaN(y) THEN NaN
    ELSE IF IsInf(x) THEN (IF IsInf(y) /\ x.s # y.s THEN NaN ELSE x)
    ELSE IF IsInf(y) THEN y
    ELSE IF IsZero(x) /\ IsZero(y) THEN Zero(IF x.s = 1 /\ y.s = 1 THEN 1 ELSE 0)
    ELSE IF IsZero(x) THEN y
    ELSE IF IsZero(y) THEN x
    ELSE IF x.e >= y.e THEN AddAligned(x, y) ELSE AddAligned(y, x)

FSub(x, y) == FAdd(x, FNeg(y))

(* The product of two 24-bit significands from their 12-bit halves: it is  *)
(* hi * 2^24 + lo with 2^46 <= product < 2^48.                             *)
MulPack(s, hi, lo, e) ==
    RoundPack(s, hi * 64 + lo \div 262144, e + 18, lo % 262144 # 0)

MulLow(s, a1b1, mid, lo0, e) ==
    MulPack(s, a1b1 + mid \div 4096 + lo0 \div 16777216, lo0 % 16777216, e)

MulMid(s, a1b1, mid, a0b0, e) ==
    MulLow(s, a1b1, mid, a0b0 + (mid % 4096) * 4096, e)

MulLimbs(s, a1, a0, b1, b0, e) ==
    MulMid(s, a1 * b1, a1 * b0 + a0 * b1, a0 * b0, e)

MulSign(x, y, s) ==
    IF IsNaN(x) \/ IsNaN(y) THEN NaN
    ELSE IF IsInf(x) \/ IsInf(y)
         THEN (IF IsZero(x) \/ IsZero(y) THEN NaN ELSE Inf(s))
    ELSE IF IsZero(x) \/ IsZero(y) THEN Zero(s)
    ELSE MulLimbs(s, x.m \div 4096, x.m % 4096, y.m \div 4096, y.m % 4096,
                  x.e + y.e)

FMul(x, y) == MulSign(x, y, (x.s + y.s) % 2)

(* n more quotient bits, 7 at a time: <<quotient, remainder>> *)
RECURSIVE DivSteps(_, _, _, _)
DivSteps(q, r, d, n) ==
    IF n = 0 THEN <<q, r>>
    ELSE DivSteps(q * 128 + (r * 128) \div d, (r * 128) % d, d, n - 1)

DivPack(s, qr, e) == RoundPack(s, qr[1], e, qr[2] # 0)

DivSign(x, y, s) ==
    IF IsNaN(x) \/ IsNaN(y) THEN NaN
    ELSE IF IsInf(x) THEN (IF IsInf(y) THEN NaN ELSE Inf(s))
    ELSE IF IsInf(y) THEN Zero(s)
    ELSE IF IsZero(y) THEN (IF IsZero(x) THEN NaN ELSE Inf(s))
    ELSE IF IsZero(x) THEN Zero(s)
    ELSE DivPack(s, DivSteps(x.m \div y.m, x.m % y.m, y.m, 4),
                 x.e - y.e - 28)

FDiv(x, y) == DivSign(x, y, (x.s + y.s) % 2)

(* integer square root by Newton's iteration, from a guess g above it;    *)
(* h is the next guess                                                     *)
RECURSIVE ISqrtFrom(_, _)
ISqrtNext(n, g, h) == IF h >= g THEN g ELSE ISqrtFrom(n, h)
ISqrtFrom(n, g) == ISqrtNext(n, g, (g + n \div g) \div 2)

(* n more root bits of the radicand extended by zero bits: <<root, rem>> *)
RECURSIVE SqrtSteps(_, _, _)
SqrtSteps(root, rem, n) ==
    IF n = 0 THEN <<root, rem>>
    ELSE IF 4 * rem >= 4 * root + 1
         THEN SqrtSteps(2 * root + 1, 4 * rem - (4 * root + 1), n - 1)
         ELSE SqrtSteps(2 * root, 4 * rem, n - 1)

SqrtPack(rr, e) == RoundPack(0, rr[1], e, rr[2] # 0)
SqrtRoot(M, r0, e) == SqrtPack(SqrtSteps(r0, M - r0 * r0, 14), e)
(* the root of M * 2^E with E even *)
SqrtEven(M, E) == SqrtRoot(M, ISqrtFrom(M, 8192), E \div 2 - 14)

FSqrt(x) ==
    IF IsNaN(x) THEN NaN
    ELSE IF IsZero(x) THEN x
    ELSE IF x.s = 1 THEN NaN
    ELSE IF IsInf(x) THEN x
    ELSE IF x.e % 2 = 1 THEN SqrtEven(2 * x.m, x.e - 1)
    ELSE SqrtEven(x.m, x.e)

(* comparisons: any comparison with NaN is false, -0 equals +0 *)
MagLt(x, y) ==
    IF IsInf(x) THEN FALSE
    ELSE IF IsInf(y) THEN TRUE
    ELSE IF y.m = 0 THEN FALSE
    ELSE IF x.m = 0 THEN TRUE
    ELSE x.e < y.e \/ (x.e = y.e /\ x.m < y.m)

FEq(x, y) ==
    /\ ~IsNaN(x) /\ ~IsNaN(y)
    /\ \/ IsZero(x) /\ IsZero(y)
       \/ x = y

FLt(x, y) ==
    /\ ~IsNaN(x) /\ ~IsNaN(y)
    /\ ~(IsZero(x) /\ IsZero(y))
    /\ IF x.s # y.s THEN x.s = 1
       ELSE IF x.s = 0 THEN MagLt(x, y) ELSE MagLt(y, x)

FLe(x, y) == FLt(x, y) \/ FEq(x, y)

(***************************************************************************)
(* scalar literals of the source                                           *)
(***************************************************************************)
F0    == Zero(0)                                       \* 0, 0.0, zero
F1    == [k |-> "fin", s |-> 0, m |-> 8388608, e |-> -23]   \* 1.0, one
F2    == [k |-> "fin", s |-> 0, m |-> 8388608, e |-> -22]   \* the 2 of midpoint
EPS   == [k |-> "fin", s |-> 0, m |-> 8796093, e |-> -43]   \* 1.0e-6 as a float

(* a faulty fpequal: <= in place of < *)
fpequalOrAt(a, b, eps) == FLe(FAbs(FSub(a, b)), eps)
(* fpequal(a, b, EPS): std::abs(a - b) < EPS *)
fpequal3(a, b, eps) == FLt(FAbs(FSub(a, b)), eps)
(* fpequal(a, b) with the default third argument *)
fpequal(a, b) == fpequal3(a, b, EPS)

(***************************************************************************)
(* Vector3: m_v[4], indexed 0..3                                           *)
(***************************************************************************)
MkV(x, y, z, w) == [i \in 0..3 |-> CASE i = 0 -> x [] i = 1 -> y
                                     [] i = 2 -> z [] OTHER -> w]
X(v) == v[0]
Y(v) == v[1]
Z(v) == v[2]
W(v) == v[3]

Vector3Default  == MkV(F0, F0, F0, F1)
(* a faulty constructor: w left at 0 *)
Vector3W0(x, y, z) == MkV(x, y, z, F0)
(* Vector3(x, y, z = 0): with three arguments and with two *)
Vector3(x, y, z) == MkV(x, y, z, F1)
Vector3xy(x, y) == Vector3(x, y, F0)
(* a faulty copy: x, y, z copied, w set to 1 *)
Vector3CopyXYZ(o) == MkV(o[0], o[1], o[2], F1)
(* copy constructor: memcpy of m_v *)
Vector3Copy(o)  == [i \in 0..3 |-> o[i]]
(* operator=: memcpy unless this == &o; sameObject says the two alias *)
Vector3Assign(this, o, sameObject) ==
    IF ~sameObject THEN [i \in 0..3 |-> o[i]] ELSE this

(* a faulty length: no snap to zero *)
lengthNoSnap(result) == result
(* length(): `result` after the snap to zero, after the square root, and   *)
(* the sum of squares                                                      *)
lengthSnap(result) == IF FLe(result, EPS) THEN F0 ELSE result
(* a faulty length: 1 returned when the root is skipped *)
lengthRootToOne(result) ==
    lengthSnap(IF ~fpequal(result, F1) THEN FSqrt(result) ELSE F1)
(* a faulty length: the square root left out *)
lengthNoRoot(result) == lengthSnap(result)
lengthRoot(result) ==
    lengthSnap(IF ~fpequal(result, F1) THEN FSqrt(result) ELSE result)
length(v) ==
    lengthRoot(FAdd(FAdd(FMul(X(v), X(v)), FMul(Y(v), Y(v))),
                    FMul(Z(v), Z(v))))

(* the receiver after normalize(), len being its length() *)
normalizeBy(v, len) ==
    IF FEq(len, F0)
    THEN MkV(F0, F0, F0, F1)
    ELSE IF ~fpequal(len, F1)
    THEN MkV(FDiv(v[0], len), FDiv(v[1], len), FDiv(v[2], len), F1)
    ELSE v
(* a faulty normalize: the receiver left as it was *)
normalizeConst(v) == v
normalize(v) == normalizeBy(v, length(v))

(* a faulty dot: w taken into the sum *)
dotWithW(a, b) ==
    FAdd(FAdd(FAdd(FMul(X(a), X(b)), FMul(Y(a), Y(b))), FMul(Z(a), Z(b))),
         FMul(W(a), W(b)))
dot(a, b) == FAdd(FAdd(FMul(X(a), X(b)), FMul(Y(a), Y(b))), FMul(Z(a), Z(b)))

(* a faulty cross: the left-handed product *)
crossLeft(a, b) ==
    Vector3(FSub(FMul(Z(a), Y(b)), FMul(Y(a), Z(b))),
            FSub(FMul(X(a), Z(b)), FMul(Z(a), X(b))),
            FSub(FMul(Y(a), X(b)), FMul(X(a), Y(b))))
cross(a, b) ==
    Vector3(FSub(FMul(Y(a), Z(b)), FMul(Z(a), Y(b))),
            FSub(FMul(Z(a), X(b)), FMul(X(a), Z(b))),
            FSub(FMul(X(a), Y(b)), FMul(Y(a), X(b))))

opAdd(a, b) == Vector3(FAdd(X(a), X(b)), FAdd(Y(a), Y(b)), FAdd(Z(a), Z(b)))
opSub(a, b) == Vector3(FSub(X(a), X(b)), FSub(Y(a), Y(b)), FSub(Z(a), Z(b)))

midpoint(a, b) ==
    Vector3(FDiv(FAdd(X(a), X(b)), F2), FDiv(FAdd(Y(a), Y(b)), F2),
            FDiv(FAdd(Z(a), Z(b)), F2))

(***************************************************************************)
(* circle3pts: the outcome is the center returned or the exception thrown  *)
(***************************************************************************)
Returned(v) == [thrown |-> "none", value |-> v]
Thrown(e)  == [thrown |-> e, value |-> Vector3Default]

(* the intersection of the lines L1 and L2, d being their determinant *)
circleCenter(L1, L2, d) ==
    Returned(Vector3(
        FDiv(FSub(FMul(Y(L1), Z(L2)), FMul(Y(L2), Z(L1))), d),
        FDiv(FSub(FMul(X(L2), Z(L1)), FMul(X(L1), Z(L2))), d),
        F0))

circleIntersect(L1, L2) ==
    circleCenter(L1, L2, FSub(FMul(X(L1), Y(L2)), FMul(X(L2), Y(L1))))

(* the implicit line through mid with the unit direction dir *)
circleLine(mid, dir) ==
    Vector3(FNeg(Y(dir)), X(dir),
            FSub(FMul(X(mid), Y(dir)), FMul(Y(mid), X(dir))))

(* the perpendicular bisector direction of dir, normalized *)
circlePerp(dir) == normalize(Vector3(Y(dir), FNeg(X(dir)), F0))

(* a faulty circle3pts: the colinearity check left out *)
circleFromDirsUnchecked(a, b, c, dirab, dirbc) ==
    circleIntersect(circleLine(midpoint(a, b), circlePerp(dirab)),
                    circleLine(midpoint(b, c), circlePerp(dirbc)))
(* circle3pts once dirab = b-a and dirbc = c-b are known *)
circleFromDirs(a, b, c, dirab, dirbc) ==
    IF fpequal(length(cross(dirab, dirbc)), F0)
    THEN Thrown("degenerate_error")
    ELSE circleIntersect(circleLine(midpoint(a, b), circlePerp(dirab)),
                         circleLine(midpoint(b, c), circlePerp(dirbc)))

circle3pts(a, b, c) == circleFromDirs(a, b, c, opSub(b, a), opSub(c, b))


(***************************************************************************)
(* Matrix3: m_m[4][4], indexed [row][column], 0..3                         *)
(***************************************************************************)
Matrix3Default ==
    [r \in 0..3 |-> [c \in 0..3 |-> IF r = c THEN F1 ELSE F0]]
(* copy constructor: memcpy of m_m *)
Matrix3Copy(o) == [r \in 0..3 |-> [c \in 0..3 |-> o[r][c]]]
(* operator=: memcpy unless this == &o *)
Matrix3Assign(this, o, sameObject) ==
    IF ~sameObject THEN [r \in 0..3 |-> [c \in 0..3 |-> o[r][c]]] ELSE this

(* An int argument converted to the uint32_t parameter: i modulo 2^32,     *)
(* kept as <<high 16 bits, low 16 bits>>.                                  *)
ToUint32(i) ==
    IF i >= 0 THEN <<i \div 65536, i % 65536>>
    ELSE LET j == i + 2147483647 + 1      \* i + 2^31, in 0 .. 2^31 - 1
         IN  <<32768 + j \div 65536, j % 65536>>
(* u > 3 for a uint32_t u *)
UGt3(u) == u[1] > 0 \/ u[2] > 3

GetReturned(x) == [thrown |-> "none", value |-> x]
GetThrown(e)   == [thrown |-> e, value |-> F0]

(* a faulty get: signed parameters and no lower bound, so that a negative  *)
(* index reads some entry                                                  *)
getSigned(m, r, c) ==
    IF r > 3 \/ c > 3
    THEN GetThrown("index_error")
    ELSE GetReturned(m[r % 4][c % 4])
(* Matrix3::get(uint32_t r, uint32_t c), called with int arguments *)
get(m, r, c) ==
    LET ur == ToUint32(r)
        uc == ToUint32(c)
    IN  IF UGt3(ur) \/ UGt3(uc)
        THEN GetThrown("index_error")
        ELSE GetReturned(m[ur[2]][uc[2]])

(* a faulty translation: the offsets in the last row *)
translationInRow(dx, dy, dz) ==
    [Matrix3Default EXCEPT ![3][0] = dx, ![3][1] = dy, ![3][2] = dz]
translation(dx, dy, dz) ==
    [Matrix3Default EXCEPT ![0][3] = dx, ![1][3] = dy, ![2][3] = dz]

scale(sx, sy, sz) ==
    [Matrix3Default EXCEPT ![0][0] = sx, ![1][1] = sy, ![2][2] = sz]

(* std::cos and std::sin on the float angles the model uses: the float     *)
(* nearest to 0, pi/2, -pi/2, pi/4, -pi/4, pi, -pi, 1, -1, pi/3, -pi/3,    *)
(* 2.5, -2.5 and -0, in this order.                                        *)
Fl(s, m, e) == [k |-> "fin", s |-> s, m |-> m, e |-> e]
AngleTable ==
    << [theta |-> F0,                    cos |-> F1,
        sin   |-> F0],
       [theta |-> Fl(0, 13176795, -23),  cos |-> Fl(1, 12303662, -48),
        sin   |-> F1],
       [theta |-> Fl(1, 13176795, -23),  cos |-> Fl(1, 12303662, -48),
        sin   |-> FNeg(F1)],
       [theta |-> Fl(0, 13176795, -24),  cos |-> Fl(0, 11863283, -24),
        sin   |-> Fl(0, 11863283, -24)],
       [theta |-> Fl(1, 13176795, -24),  cos |-> Fl(0, 11863283, -24),
        sin   |-> Fl(1, 11863283, -24)],
       [theta |-> Fl(0, 13176795, -22),  cos |-> FNeg(F1),
        sin   |-> Fl(1, 12303662, -47)],
       [theta |-> Fl(1, 13176795, -22),  cos |-> FNeg(F1),
        sin   |-> Fl(0, 12303662, -47)],
       [theta |-> Fl(0, 8388608, -23),   cos |-> Fl(0, 9064768, -24),
        sin   |-> Fl(0, 14117540, -24)],
       [theta |-> Fl(1, 8388608, -23),   cos |-> Fl(0, 9064768, -24),
        sin   |-> Fl(1, 14117540, -24)],
       [theta |-> Fl(0, 8784530, -23),   cos |-> Fl(0, 16777215, -25),
        sin   |-> Fl(0, 14529496, -24)],
       [theta |-> Fl(1, 8784530, -23),   cos |-> Fl(0, 16777215, -25),
        sin   |-> Fl(1, 14529496, -24)],
       [theta |-> Fl(0, 10485760, -22),  cos |-> Fl(1, 13440959, -24),
        sin   |-> Fl(0, 10040696, -24)],
       [theta |-> Fl(1, 10485760, -22),  cos |-> Fl(1, 13440959, -24),
        sin   |-> Fl(1, 10040696, -24)],
       [theta |-> Zero(1),               cos |-> F1,
        sin   |-> Zero(1)] >>
AngleRow(theta) ==
    AngleTable[CHOOSE i \in 1..Len(AngleTable) : AngleTable[i].theta = theta]
Cos(theta) == AngleRow(theta).cos
Sin(theta) == AngleRow(theta).sin

rotateX(theta) ==
    LET ct == Cos(theta)
        st == Sin(theta)
    IN  [Matrix3Default EXCEPT ![1][1] = ct, ![2][2] = ct,
                               ![1][2] = FNeg(st), ![2][1] = st]

(* a faulty rotateY: the signs of the sines exchanged *)
rotateYSwapped(theta) ==
    LET ct == Cos(theta)
        st == Sin(theta)
    IN  [Matrix3Default EXCEPT ![0][0] = ct, ![2][2] = ct,
                               ![0][2] = FNeg(st), ![2][0] = st]
rotateY(theta) ==
    LET ct == Cos(theta)
        st == Sin(theta)
    IN  [Matrix3Default EXCEPT ![0][0] = ct, ![2][2] = ct,
                               ![0][2] = st, ![2][0] = FNeg(st)]

(* a faulty rotateZ: the signs of the sines exchanged *)
rotateZSwapped(theta) ==
    LET ct == Cos(theta)
        st == Sin(theta)
    IN  [Matrix3Default EXCEPT ![0][0] = ct, ![1][1] = ct,
                               ![0][1] = st, ![1][0] = FNeg(st)]
rotateZ(theta) ==
    LET ct == Cos(theta)
        st == Sin(theta)
    IN  [Matrix3Default EXCEPT ![0][0] = ct, ![1][1] = ct,
                               ![0][1] = FNeg(st), ![1][0] = st]

(* faulty products: the last term of each sum left out; matb read         *)
(* transposed                                                              *)
opMulMMShort(mata, matb) ==
    [i \in 0..3 |-> [j \in 0..3 |->
        FAdd(FAdd(FMul(mata[i][0], matb[0][j]),
                  FMul(mata[i][1], matb[1][j])),
             FMul(mata[i][2], matb[2][j]))]]
opMulMMTransposed(mata, matb) ==
    [i \in 0..3 |-> [j \in 0..3 |->
        FAdd(FAdd(FAdd(FMul(mata[i][0], matb[j][0]),
                       FMul(mata[i][1], matb[j][1])),
                  FMul(mata[i][2], matb[j][2])),
             FMul(mata[i][3], matb[j][3]))]]
(* Matrix3 * Matrix3 *)
opMulMM(mata, matb) ==
    [i \in 0..3 |-> [j \in 0..3 |->
        FAdd(FAdd(FAdd(FMul(mata[i][0], matb[0][j]),
                       FMul(mata[i][1], matb[1][j])),
                  FMul(mata[i][2], matb[2][j])),
             FMul(mata[i][3], matb[3][j]))]]

(* a faulty Vector3 * Matrix3: the vector taken as a column *)
opMulVMAsColumn(vec, mat) ==
    [j \in 0..3 |->
        FAdd(FAdd(FAdd(FMul(vec[0], mat[j][0]), FMul(vec[1], mat[j][1])),
                  FMul(vec[2], mat[j][2])),
             FMul(vec[3], mat[j][3]))]
(* Vector3 * Matrix3: the vector is a row *)
opMulVM(vec, mat) ==
    [j \in 0..3 |->
        FAdd(FAdd(FAdd(FMul(vec[0], mat[0][j]), FMul(vec[1], mat[1][j])),
                  FMul(vec[2], mat[2][j])),
             FMul(vec[3], mat[3][j]))]

(* a faulty Matrix3 * Vector3: the vector taken as a row *)
opMulMVAsRow(mat, vec) ==
    [i \in 0..3 |->
        FAdd(FAdd(FAdd(FMul(vec[0], mat[0][i]), FMul(vec[1], mat[1][i])),
                  FMul(vec[2], mat[2][i])),
             FMul(vec[3], mat[3][i]))]
(* Matrix3 * Vector3: the vector is a column *)
opMulMV(mat, vec) ==
    [i \in 0..3 |->
        FAdd(FAdd(FAdd(FMul(vec[0], mat[i][0]), FMul(vec[1], mat[i][1])),
                  FMul(vec[2], mat[i][2])),
             FMul(vec[3], mat[i][3]))]


(***************************************************************************)
(* Vector3fmm and Matrix3fmm: m_v is a __m128, m_m is four __m128, a       *)
(* __m128 being four floats indexed 0..3                                   *)
(***************************************************************************)
Vector3fmm(x, y, z) == MkV(x, y, z, F1)

Matrix3fmmDefault ==
    [r \in 0..3 |-> [col \in 0..3 |-> IF r = col THEN F1 ELSE F0]]

getfmm(m, r, col) ==
    LET ur == ToUint32(r)
        uc == ToUint32(col)
    IN  IF UGt3(ur) \/ UGt3(uc)
        THEN GetThrown("index_error")
        ELSE GetReturned(m[ur[2]][uc[2]])

translationfmm(dx, dy, dz) ==
    [Matrix3fmmDefault EXCEPT ![0][3] = dx, ![1][3] = dy, ![2][3] = dz]

scalefmm(sx, sy, sz) ==
    [Matrix3fmmDefault EXCEPT ![0][0] = sx, ![1][1] = sy, ![2][2] = sz]

(* rotateX, rotateY and rotateZ of Matrix3fmm *)
rotatefmm(axis, theta) ==
    LET ct == Cos(theta)
        st == Sin(theta)
    IN  CASE axis = "X" ->
               [Matrix3fmmDefault EXCEPT ![1][1] = ct, ![2][2] = ct,
                                         ![1][2] = FNeg(st), ![2][1] = st]
          [] axis = "Y" ->
               [Matrix3fmmDefault EXCEPT ![0][0] = ct, ![2][2] = ct,
                                         ![0][2] = st, ![2][0] = FNeg(st)]
          [] axis = "Z" ->
               [Matrix3fmmDefault EXCEPT ![0][0] = ct, ![1][1] = ct,
                                         ![0][1] = FNeg(st), ![1][0] = st]

(* vm_mult: the rows of m scaled by the lanes of vec (_mm_mul_ps), then    *)
(* r0 + r1, r2 + r3 and their sum (_mm_add_ps)                             *)
vm_mult(vec, m) ==
    [i \in 0..3 |->
        FAdd(FAdd(FMul(vec[0], m[0][i]), FMul(vec[1], m[1][i])),
             FAdd(FMul(vec[2], m[2][i]), FMul(vec[3], m[3][i])))]
(* mv_mult: each row of m times vec lane by lane (_mm_mul_ps), then the    *)
(* horizontal adds: lanes 0+1 and 2+3 of a row, then the two sums          *)
mv_mult(m, vec) ==
    [i \in 0..3 |->
        FAdd(FAdd(FMul(m[i][0], vec[0]), FMul(m[i][1], vec[1])),
             FAdd(FMul(m[i][2], vec[2]), FMul(m[i][3], vec[3])))]

(* Matrix3fmm * Matrix3fmm, Vector3fmm * Matrix3fmm, Matrix3fmm * Vector3fmm *)
opMulMMfmm(mata, matb) == [i \in 0..3 |-> vm_mult(mata[i], matb)]
opMulVMfmm(vec, mat) == vm_mult(vec, mat)
opMulMVfmm(mat, vec) == mv_mult(mat, vec)


(***************************************************************************)
(* Point3 and the operators on Point3 and Vector3.  An operand carries its *)
(* class; an expression whose operand classes match no operator is         *)
(* rejected by the compiler.                                               *)
(***************************************************************************)
Point3(x, y, z) == MkV(x, y, z, F1)
Typed(type, m_v) == [type |-> type, m_v |-> m_v]
NoMatch == [thrown |-> "no_match", value |-> Typed("none", Vector3Default)]

(* Point3 + Vector3 and Vector3 + Point3: both add dir to pt *)
opAddPV(pt, dir) ==
    Point3(FAdd(X(pt), X(dir)), FAdd(Y(pt), Y(dir)), FAdd(Z(pt), Z(dir)))
opAddVP(dir, pt) ==
    Point3(FAdd(X(pt), X(dir)), FAdd(Y(pt), Y(dir)), FAdd(Z(pt), Z(dir)))
(* Point3 - Point3 *)
opSubPP(p, q) ==
    Vector3(FSub(X(p), X(q)), FSub(Y(p), Y(q)), FSub(Z(p), Z(q)))

(* a faulty set of operators: a sum for every pair of classes *)
PlusAnyClasses(l, r) ==
    Returned(Typed(l.type, opAdd(l.m_v, r.m_v)))
(* l + r and l - r under overload resolution *)
Plus(l, r) ==
    CASE l.type = "Vector3" /\ r.type = "Vector3" ->
             Returned(Typed("Vector3", opAdd(l.m_v, r.m_v)))
      [] l.type = "Point3" /\ r.type = "Vector3" ->
             Returned(Typed("Point3", opAddPV(l.m_v, r.m_v)))
      [] l.type = "Vector3" /\ r.type = "Point3" ->
             Returned(Typed("Point3", opAddVP(l.m_v, r.m_v)))
      [] OTHER -> NoMatch
Minus(l, r) ==
    CASE l.type = "Vector3" /\ r.type = "Vector3" ->
             Returned(Typed("Vector3", opSub(l.m_v, r.m_v)))
      [] l.type = "Point3" /\ r.type = "Point3" ->
             Returned(Typed("Vector3", opSubPP(l.m_v, r.m_v)))
      [] OTHER -> NoMatch

(***************************************************************************)
(* The programs that use the library.  A run constructs its operands       *)
(* (Init) and calls the library; `op` and `args` name the last call.       *)
(*   a, b, c, outcome : the points given to circle3pts and what it did     *)
(*   MA, MB, MR, ret  : two Matrix3 operands, the Matrix3 last returned,   *)
(*                      and what the last get() or dot() did               *)
(*   v, vr            : a Vector3 object and the Vector3 last returned     *)
(*   n                : the number of calls made on v                      *)
(***************************************************************************)
VARIABLES op, args, n, a, b, c, outcome, MA, MB, MR, ret, v, vr

vars       == <<op, args, n, a, b, c, outcome, MA, MB, MR, ret, v, vr>>

(* bounds of the model *)
NPts   == 9
NMat   == 5
NVec   == 6
MaxOps == 4
NScal  == 7

I(i) == FromInt(i)

(* the X,Y of the points, in grid units; the first three are the test's *)
PointList ==
    << <<1, 1>>, <<2, 0>>, <<3, 1>>, <<0, 0>>, <<1, 0>>, <<0, 1>>,
       <<2, 1>>, <<3, 0>>, <<2, 2>>, <<0, 2>> >>
GridPts == {PointList[i] : i \in 1..NPts}

(* the length of a grid unit along X and along Y: 1 and 1; 1/2000 and      *)
(* 1/2000; 1/2000000 and 4                                                 *)
UnitList ==
    << <<F1, F1>>,
       <<FDiv(F1, I(2000)), FDiv(F1, I(2000))>>,
       <<FDiv(F1, I(2000000)), I(4)>> >>
(* the Z of a, b and c *)
ZList == << <<0, 0, 0>>, <<0, 0, 1>>, <<1, 1, 1>> >>

Pt(g, u, z) == Vector3(FMul(I(g[1]), u[1]), FMul(I(g[2]), u[2]), I(z))

NotCalled == [thrown |-> "not_called", value |-> Vector3Default]

(* operands of the matrix and vector programs *)
TArgList == << <<1, 2, 3>>, <<2, 2, 2>>, <<-1, 0, 4>>, <<1, 2, 1>> >>
SArgList == << <<2, 3, 5>>, <<2, 2, 2>>, <<-1, 1, 3>> >>
TArgs == {<<I(t[1]), I(t[2]), I(t[3])>> : t \in {TArgList[i] : i \in 1..Len(TArgList)}}
SArgs == {<<I(t[1]), I(t[2]), I(t[3])>> : t \in {SArgList[i] : i \in 1..Len(SArgList)}}
Thetas == {AngleTable[i].theta : i \in 1..Len(AngleTable)}

MatList ==
    << translation(I(1), I(2), I(3)),
       rotateZ(AngleTable[2].theta),
       Matrix3Default,
       opMulMM(rotateX(AngleTable[4].theta), translation(I(1), I(2), I(3))),
       scale(I(2), I(3), I(5)),
       opMulMM(opMulMM(rotateY(AngleTable[5].theta), scale(I(2), I(3), I(5))),
               translation(I(-1), I(0), I(4))),
       rotateX(AngleTable[1].theta) >>
MatPool == {MatList[i] : i \in 1..NMat}

VecList ==
    << Vector3(I(1), I(0), I(0)), Vector3(I(1), I(2), I(3)),
       Vector3(I(0), I(1), I(0)),
       opMulVM(Vector3(I(1), I(0), I(0)), translation(I(1), I(2), I(3))),
       Vector3(I(-2), I(5), I(1)), Vector3(I(0), I(0), I(1)),
       Vector3(I(1), I(1), I(1)), Vector3Default >>
VecPool == {VecList[i] : i \in 1..NVec}

Indices == -2..5

(***************************************************************************)
(* the circle program: one call of circle3pts(a, b, c)                     *)
(***************************************************************************)
(* args records how the three points were made: the grid points, the unit  *)
(* and the Z profile                                                       *)
InitCircle ==
    /\ op = "init" /\ n = 0
    /\ \E ga \in GridPts, gb \in GridPts, gc \in GridPts :
       \E ui \in 1..Len(UnitList), zi \in 1..Len(ZList) :
          /\ ui # 1 => zi = 1
          /\ args = <<ga, gb, gc, ui, zi>>
          /\ a = Pt(ga, UnitList[ui], ZList[zi][1])
          /\ b = Pt(gb, UnitList[ui], ZList[zi][2])
          /\ c = Pt(gc, UnitList[ui], ZList[zi][3])
    /\ outcome = NotCalled
    /\ MA = Matrix3Default /\ MB = Matrix3Default /\ MR = Matrix3Default
    /\ ret = GetThrown("not_called")
    /\ v = Vector3Default /\ vr = Vector3Default

CallCircle3pts ==
    /\ op = "init"
    /\ op' = "circle3pts"
    /\ outcome' = circle3pts(a, b, c)
    /\ UNCHANGED <<args, n, a, b, c, MA, MB, MR, ret, v, vr>>

NextCircle == CallCircle3pts
SpecCircle == InitCircle /\ [][NextCircle]_vars

(***************************************************************************)
(* the matrix program: operands MA, MB and v, then one call                *)
(***************************************************************************)
Init ==
    /\ op = "init" /\ args = <<>> /\ n = 0
    /\ a = Vector3Default /\ b = Vector3Default /\ c = Vector3Default
    /\ outcome = NotCalled
    /\ MA \in MatPool /\ MB \in MatPool /\ MR = Matrix3Default
    /\ ret = GetThrown("not_called")
    /\ v \in VecPool /\ vr = Vector3Default

CallMatrix3 ==
    /\ op = "init"
    /\ op' = "Matrix3" /\ MR' = Matrix3Default
    /\ UNCHANGED <<args, n, a, b, c, outcome, MA, MB, ret, v, vr>>

CallTranslation ==
    /\ op = "init"
    /\ \E t \in TArgs :
          /\ op' = "translation" /\ args' = t
          /\ MR' = translation(t[1], t[2], t[3])
    /\ UNCHANGED <<n, a, b, c, outcome, MA, MB, ret, v, vr>>

CallScale ==
    /\ op = "init"
    /\ \E t \in SArgs :
          /\ op' = "scale" /\ args' = t
          /\ MR' = scale(t[1], t[2], t[3])
    /\ UNCHANGED <<n, a, b, c, outcome, MA, MB, ret, v, vr>>

CallRotateX ==
    /\ op = "init"
    /\ \E theta \in Thetas :
          /\ op' = "rotateX" /\ args' = <<theta>>
          /\ MR' = rotateX(theta)
    /\ UNCHANGED <<n, a, b, c, outcome, MA, MB, ret, v, vr>>

CallRotateY ==
    /\ op = "init"
    /\ \E theta \in Thetas :
          /\ op' = "rotateY" /\ args' = <<theta>>
          /\ MR' = rotateY(theta)
    /\ UNCHANGED <<n, a, b, c, outcome, MA, MB, ret, v, vr>>

CallRotateZ ==
    /\ op = "init"
    /\ \E theta \in Thetas :
          /\ op' = "rotateZ" /\ args' = <<theta>>
          /\ MR' = rotateZ(theta)
    /\ UNCHANGED <<n, a, b, c, outcome, MA, MB, ret, v, vr>>

CallGet ==
    /\ op = "init"
    /\ \E r \in Indices, col \in Indices :
          /\ op' = "get" /\ args' = <<r, col>>
          /\ ret' = get(MA, r, col)
    /\ UNCHANGED <<n, a, b, c, outcome, MA, MB, MR, v, vr>>

CallMulMM ==
    /\ op = "init"
    /\ op' = "mulMM" /\ MR' = opMulMM(MA, MB)
    /\ UNCHANGED <<args, n, a, b, c, outcome, MA, MB, ret, v, vr>>

CallMulVM ==
    /\ op = "init"
    /\ op' = "mulVM" /\ vr' = opMulVM(v, MA)
    /\ UNCHANGED <<args, n, a, b, c, outcome, MA, MB, MR, ret, v>>

CallMulMV ==
    /\ op = "init"
    /\ op' = "mulMV" /\ vr' = opMulMV(MA, v)
    /\ UNCHANGED <<args, n, a, b, c, outcome, MA, MB, MR, ret, v>>

(* translation(dx, dy, dz) * v *)
CallTranslate ==
    /\ op = "init"
    /\ \E t \in TArgs :
          /\ op' = "translate" /\ args' = t
          /\ vr' = opMulMV(translation(t[1], t[2], t[3]), v)
    /\ UNCHANGED <<n, a, b, c, outcome, MA, MB, MR, ret, v>>

(* the arguments of the constructors: val = 1.2, 2.0*val, 3.0*val, and    *)
(* whole numbers                                                           *)
val == Fl(0, 10066330, -23)
CtorArgs == TArgs \cup {<<val, FMul(I(2), val), FMul(I(3), val)>>}

(* Vector3 v3;  Vector3 v3(x, y);  Vector3 v3(x, y, z) *)
CallVector3 ==
    /\ op = "init"
    /\ \/ op' = "Vector3" /\ args' = <<>> /\ vr' = Vector3Default
       \/ \E t \in CtorArgs :
             /\ op' = "Vector3xy" /\ args' = <<t[1], t[2]>>
             /\ vr' = Vector3xy(t[1], t[2])
       \/ \E t \in CtorArgs :
             /\ op' = "Vector3xyz" /\ args' = t
             /\ vr' = Vector3(t[1], t[2], t[3])
    /\ UNCHANGED <<n, a, b, c, outcome, MA, MB, MR, ret, v>>

(* Vector3 v3(v);  v3 = v;  v = v *)
CallVector3Copy ==
    /\ op = "init"
    /\ \/ op' = "copy" /\ vr' = Vector3Copy(v) /\ v' = v
       \/ op' = "assign" /\ vr' = Vector3Assign(vr, v, FALSE) /\ v' = v
       \/ op' = "selfAssign" /\ v' = Vector3Assign(v, v, TRUE) /\ vr' = vr
    /\ UNCHANGED <<args, n, a, b, c, outcome, MA, MB, MR, ret>>

(* Matrix3 m(MA);  m = MA;  MA = MA *)
CallMatrix3Copy ==
    /\ op = "init"
    /\ \/ op' = "copyM" /\ MR' = Matrix3Copy(MA) /\ MA' = MA
       \/ op' = "assignM" /\ MR' = Matrix3Assign(MR, MA, FALSE) /\ MA' = MA
       \/ op' = "selfAssignM" /\ MA' = Matrix3Assign(MA, MA, TRUE)
                               /\ MR' = MR
    /\ UNCHANGED <<args, n, a, b, c, outcome, MB, ret, v, vr>>

(* dot(v, u) and cross(v, u); args records u *)
CallDot ==
    /\ op = "init"
    /\ \E u \in VecPool :
          /\ op' = "dot" /\ args' = <<u>>
          /\ ret' = GetReturned(dot(v, u))
    /\ UNCHANGED <<n, a, b, c, outcome, MA, MB, MR, v, vr>>

CallCross ==
    /\ op = "init"
    /\ \E u \in VecPool :
          /\ op' = "cross" /\ args' = <<u>>
          /\ vr' = cross(v, u)
    /\ UNCHANGED <<n, a, b, c, outcome, MA, MB, MR, ret, v>>

Next ==
    \/ CallMatrix3 \/ CallTranslation \/ CallScale
    \/ CallRotateX \/ CallRotateY \/ CallRotateZ
    \/ CallGet \/ CallMulMM \/ CallMulVM \/ CallMulMV
    \/ CallTranslate
    \/ CallVector3 \/ CallVector3Copy \/ CallMatrix3Copy
    \/ CallDot \/ CallCross

Spec == Init /\ [][Next]_vars


(***************************************************************************)
(* the rotation program: MA = rotateA(theta) and MB = rotateA(-theta) for  *)
(* an axis A and an angle theta, and a vector v; then one call.  args      *)
(* records the axis and the angle.                                         *)
(***************************************************************************)
Axes == {"X", "Y", "Z"}
rotate(axis, theta) ==
    CASE axis = "X" -> rotateX(theta)
      [] axis = "Y" -> rotateY(theta)
      [] OTHER      -> rotateZ(theta)

InitRot ==
    /\ op = "init" /\ n = 0
    /\ a = Vector3Default /\ b = Vector3Default /\ c = Vector3Default
    /\ outcome = NotCalled
    /\ \E axis \in Axes, theta \in Thetas :
          /\ args = <<axis, theta>>
          /\ MA = rotate(axis, theta)
          /\ MB = rotate(axis, FNeg(theta))
    /\ MR = Matrix3Default
    /\ ret = GetThrown("not_called")
    /\ v \in VecPool /\ vr = Vector3Default

(* rotateA(theta) * rotateA(-theta) *)
RotForthBack ==
    /\ op = "init"
    /\ op' = "forthBack" /\ MR' = opMulMM(MA, MB)
    /\ UNCHANGED <<args, n, a, b, c, outcome, MA, MB, ret, v, vr>>

(* rotateA(-theta) * rotateA(theta) *)
RotBackForth ==
    /\ op = "init"
    /\ op' = "backForth" /\ MR' = opMulMM(MB, MA)
    /\ UNCHANGED <<args, n, a, b, c, outcome, MA, MB, ret, v, vr>>

(* RX * RZ * v with RX = rotateX(pi/2) and RZ = rotateZ(theta) *)
RotZX ==
    /\ op = "init"
    /\ op' = "rotateZX"
    /\ vr' = opMulMV(opMulMM(rotateX(AngleTable[2].theta),
                             rotateZ(args[2])), v)
    /\ UNCHANGED <<args, n, a, b, c, outcome, MA, MB, MR, ret, v>>

(* RY * v with RY = rotateY(-theta) *)
RotY ==
    /\ op = "init"
    /\ op' = "rotateYBack"
    /\ vr' = opMulMV(rotateY(FNeg(args[2])), v)
    /\ UNCHANGED <<args, n, a, b, c, outcome, MA, MB, MR, ret, v>>

NextRot == RotForthBack \/ RotBackForth \/ RotZX \/ RotY

SpecRot == InitRot /\ [][NextRot]_vars


(***************************************************************************)
(* the point program: operands a and b, each a Vector3 or a Point3, then   *)
(* a + b or a - b; outcome is the object returned, or no_match.  A Point3  *)
(* has W() = 1: no operation makes one with another W().                   *)
(***************************************************************************)
Operands ==
    {Typed("Vector3", u) : u \in VecPool}
    \cup {Typed("Point3", u) : u \in {w \in VecPool : W(w) = F1}}
    \cup {Typed("Point3", Point3(I(-2), I(0), I(0))),
          Typed("Point3", Point3(I(0), I(2), I(0)))}

InitPt ==
    /\ op = "init" /\ args = <<>> /\ n = 0
    /\ a \in Operands /\ b \in Operands /\ c = Vector3Default
    /\ outcome = NotCalled
    /\ MA = Matrix3Default /\ MB = Matrix3Default /\ MR = Matrix3Default
    /\ ret = GetThrown("not_called")
    /\ v = Vector3Default /\ vr = Vector3Default

CallPlus ==
    /\ op = "init"
    /\ op' = "+" /\ outcome' = Plus(a, b)
    /\ UNCHANGED <<args, n, a, b, c, MA, MB, MR, ret, v, vr>>

CallMinus ==
    /\ op = "init"
    /\ op' = "-" /\ outcome' = Minus(a, b)
    /\ UNCHANGED <<args, n, a, b, c, MA, MB, MR, ret, v, vr>>

NextPt == CallPlus \/ CallMinus

SpecPt == InitPt /\ [][NextPt]_vars


(***************************************************************************)
(* the comparison program: fpequal(x, y, eps) and fpequal(x, y) on scalars *)
(* x, y and eps; args records them, ret.value is the bool returned.        *)
(***************************************************************************)
(* 0, 1, -2, 3, 1.0e-6, 5.0e-7, 1 + 8 ulp (below 1 + 1.0e-6), 1 + 9 ulp    *)
(* (above it) and 1 - 1.0e-6                                               *)
EqScalars ==
    {F0, F1, I(-2), I(3), EPS, Fl(0, 8796093, -44),
     Fl(0, 8388616, -23), Fl(0, 8388617, -23), FSub(F1, EPS)}
EqTolerances == {EPS, F1, I(3)}

InitEq ==
    /\ op = "init" /\ n = 0
    /\ args \in EqScalars \X EqScalars \X EqTolerances
    /\ a = Vector3Default /\ b = Vector3Default /\ c = Vector3Default
    /\ outcome = NotCalled
    /\ MA = Matrix3Default /\ MB = Matrix3Default /\ MR = Matrix3Default
    /\ ret = GetThrown("not_called")
    /\ v = Vector3Default /\ vr = Vector3Default

CallFpequal ==
    /\ op = "init"
    /\ \/ op' = "fpequal3"
          /\ ret' = GetReturned(fpequal3(args[1], args[2], args[3]))
       \/ op' = "fpequal"
          /\ ret' = GetReturned(fpequal(args[1], args[2]))
    /\ UNCHANGED <<args, n, a, b, c, outcome, MA, MB, MR, v, vr>>

SpecEq == InitEq /\ [][CallFpequal]_vars


(***************************************************************************)
(* the vector program: a Vector3 object v taken through a sequence of      *)
(* calls, each result becoming v; MA is the matrix it is multiplied with   *)
(***************************************************************************)
InitVec ==
    /\ op = "init" /\ args = <<>> /\ n = 0
    /\ a = Vector3Default /\ b = Vector3Default /\ c = Vector3Default
    /\ outcome = NotCalled
    /\ MA \in MatPool /\ MB = Matrix3Default /\ MR = Matrix3Default
    /\ ret = GetThrown("not_called")
    /\ v = Vector3Default /\ vr = Vector3Default

(* the other operand of a binary operation: a constructed vector or v *)
VecArgs == {VecList[2], v}

VecCtor ==
    /\ n < MaxOps
    /\ \/ op' = "Vector3" /\ v' = Vector3Default
       \/ op' = "Vector3xyz" /\ \E u \in {VecList[1], VecList[2]} :
                                    v' = Vector3(X(u), Y(u), Z(u))
       \/ op' = "Vector3xy" /\ v' = Vector3xy(X(VecList[2]), Y(VecList[2]))
    /\ n' = n + 1
    /\ UNCHANGED <<args, a, b, c, outcome, MA, MB, MR, ret, vr>>

VecCopy ==
    /\ n < MaxOps
    /\ \/ op' = "copy" /\ v' = Vector3Copy(v)
       \/ op' = "assign" /\ v' = Vector3Assign(v, VecList[2], FALSE)
       \/ op' = "assign" /\ v' = Vector3Assign(v, v, TRUE)
    /\ n' = n + 1
    /\ UNCHANGED <<args, a, b, c, outcome, MA, MB, MR, ret, vr>>

VecAdd ==
    /\ n < MaxOps
    /\ op' = "add" /\ \E u \in VecArgs : v' = opAdd(v, u)
    /\ n' = n + 1
    /\ UNCHANGED <<args, a, b, c, outcome, MA, MB, MR, ret, vr>>

VecSub ==
    /\ n < MaxOps
    /\ op' = "sub" /\ \E u \in VecArgs : v' = opSub(v, u)
    /\ n' = n + 1
    /\ UNCHANGED <<args, a, b, c, outcome, MA, MB, MR, ret, vr>>

VecCross ==
    /\ n < MaxOps
    /\ op' = "cross" /\ \E u \in VecArgs : v' = cross(v, u)
    /\ n' = n + 1
    /\ UNCHANGED <<args, a, b, c, outcome, MA, MB, MR, ret, vr>>

VecMidpoint ==
    /\ n < MaxOps
    /\ op' = "midpoint" /\ \E u \in VecArgs : v' = midpoint(v, u)
    /\ n' = n + 1
    /\ UNCHANGED <<args, a, b, c, outcome, MA, MB, MR, ret, vr>>

VecNormalize ==
    /\ n < MaxOps
    /\ op' = "normalize" /\ v' = normalize(v)
    /\ n' = n + 1
    /\ UNCHANGED <<args, a, b, c, outcome, MA, MB, MR, ret, vr>>

VecMulVM ==
    /\ n < MaxOps
    /\ op' = "mulVM" /\ v' = opMulVM(v, MA)
    /\ n' = n + 1
    /\ UNCHANGED <<args, a, b, c, outcome, MA, MB, MR, ret, vr>>

VecMulMV ==
    /\ n < MaxOps
    /\ op' = "mulMV" /\ v' = opMulMV(MA, v)
    /\ n' = n + 1
    /\ UNCHANGED <<args, a, b, c, outcome, MA, MB, MR, ret, vr>>

NextVec ==
    \/ VecCtor \/ VecCopy \/ VecAdd \/ VecSub \/ VecCross \/ VecMidpoint
    \/ VecNormalize \/ VecMulVM \/ VecMulMV

SpecVec == InitVec /\ [][NextVec]_vars


(***************************************************************************)
(* the normalize program: a Vector3 v made by the constructor, or returned *)
(* by v * M, and normalize() called on it again and again                  *)
(***************************************************************************)
(* the x, y, z: 0, 1, -2, 5.0e-7, two floats next to 1 (1 + 3 ulp and      *)
(* 1 + 6 ulp), 2^64, 1.2 and 1000                                          *)
ScalarList ==
    << F0, F1, I(-2), Fl(0, 8796093, -44), Fl(0, 8388611, -23),
       Fl(0, 8388614, -23), Fl(0, 8388608, 41), val, I(1000) >>
Scalars == {ScalarList[i] : i \in 1..NScal}

InitNorm ==
    /\ op = "init" /\ args = <<>> /\ n = 0
    /\ a = Vector3Default /\ b = Vector3Default /\ c = Vector3Default
    /\ outcome = NotCalled
    /\ MA = Matrix3Default /\ MB = Matrix3Default /\ MR = Matrix3Default
    /\ ret = GetThrown("not_called")
    /\ \/ \E x \in Scalars, y \in Scalars, z \in Scalars :
             v = Vector3(x, y, z)
       \/ \E u \in VecPool : v = opMulVM(u, translation(I(1), I(2), I(3)))
    /\ vr = Vector3Default

(* v.length() *)
VecLength ==
    /\ n < MaxOps
    /\ op' = "length" /\ ret' = GetReturned(length(v))
    /\ n' = n + 1
    /\ UNCHANGED <<args, a, b, c, outcome, MA, MB, MR, v, vr>>

(* v.normalize().length(): normalize() returns *this, so length() is that  *)
(* of the receiver after normalize(); args records the receiver before it  *)
VecNormalizeLength ==
    /\ n < MaxOps
    /\ op' = "normalizeLength" /\ args' = <<v>> /\ v' = normalize(v)
    /\ ret' = GetReturned(length(normalize(v)))
    /\ n' = n + 1
    /\ UNCHANGED <<a, b, c, outcome, MA, MB, MR, vr>>

SpecNorm ==
    InitNorm /\ [][VecNormalize \/ VecLength \/ VecNormalizeLength]_vars

(***************************************************************************)
(* the operands program: objects a, b, c, MA and MB; normalize() called on *)
(* a or b some times, then one call of a const operation on them, its      *)
(* result held by ret, vr, MR or outcome                                   *)
(***************************************************************************)
InitPure ==
    /\ op = "init" /\ args = <<>> /\ n = 0
    /\ a \in {VecList[2], VecList[5]} /\ b \in {VecList[2], VecList[7]}
    /\ c = VecList[3]
    /\ outcome = NotCalled
    /\ MA \in MatPool /\ MB = MatList[1] /\ MR = Matrix3Default
    /\ ret = GetThrown("not_called")
    /\ v = Vector3Default /\ vr = Vector3Default

Normalized == op \in {"init", "normalize"}

(* a.normalize();  b.normalize(): args records the receiver *)
PureNormalize ==
    /\ Normalized /\ n < MaxOps
    /\ op' = "normalize"
    /\ \/ args' = <<"a">> /\ a' = normalize(a) /\ b' = b
       \/ args' = <<"b">> /\ b' = normalize(b) /\ a' = a
    /\ n' = n + 1
    /\ UNCHANGED <<c, outcome, MA, MB, MR, ret, v, vr>>

(* dot, cross, +, -, midpoint: parameters by reference to const; the two   *)
(* may be the same object                                                  *)
PureVecVec ==
    /\ Normalized
    /\ \E p \in {a, b} :
          \/ op' = "dot" /\ ret' = GetReturned(dot(a, p)) /\ vr' = vr
          \/ op' = "cross" /\ vr' = cross(a, p) /\ ret' = ret
          \/ op' = "add" /\ vr' = opAdd(a, p) /\ ret' = ret
          \/ op' = "sub" /\ vr' = opSub(a, p) /\ ret' = ret
          \/ op' = "midpoint" /\ vr' = midpoint(a, p) /\ ret' = ret
    /\ UNCHANGED <<args, n, a, b, c, outcome, MA, MB, MR, v>>

(* a.length();  MA.get(r, r): const member functions *)
PureMember ==
    /\ Normalized
    /\ \/ op' = "length" /\ ret' = GetReturned(length(a))
       \/ \E r \in Indices : op' = "get" /\ ret' = get(MA, r, r)
    /\ UNCHANGED <<args, n, a, b, c, outcome, MA, MB, MR, v, vr>>

(* MA * MB, MA * MA, a * MA, MA * a *)
PureMul ==
    /\ Normalized
    /\ \/ op' = "mulMM" /\ MR' = opMulMM(MA, MB) /\ vr' = vr
       \/ op' = "mulMM" /\ MR' = opMulMM(MA, MA) /\ vr' = vr
       \/ op' = "mulVM" /\ vr' = opMulVM(a, MA) /\ MR' = MR
       \/ op' = "mulMV" /\ vr' = opMulMV(MA, a) /\ MR' = MR
    /\ UNCHANGED <<args, n, a, b, c, outcome, MA, MB, ret, v>>

(* the static factories, given X(a), Y(a) and Z(a) *)
PureFactory ==
    /\ Normalized
    /\ \/ op' = "translation" /\ MR' = translation(X(a), Y(a), Z(a))
       \/ op' = "scale" /\ MR' = scale(X(a), Y(a), Z(a))
       \/ op' = "rotateX" /\ MR' = rotateX(AngleTable[2].theta)
       \/ op' = "rotateY" /\ MR' = rotateY(AngleTable[2].theta)
       \/ op' = "rotateZ" /\ MR' = rotateZ(AngleTable[2].theta)
    /\ UNCHANGED <<args, n, a, b, c, outcome, MA, MB, ret, v, vr>>

(* circle3pts(a, b, c): parameters by value *)
PureCircle3pts ==
    /\ Normalized
    /\ op' = "circle3pts" /\ outcome' = circle3pts(a, b, c)
    /\ UNCHANGED <<args, n, a, b, c, MA, MB, MR, ret, v, vr>>

NextPure ==
    \/ PureNormalize \/ PureVecVec \/ PureMember \/ PureMul \/ PureFactory
    \/ PureCircle3pts

SpecPure == InitPure /\ [][NextPure]_vars


(***************************************************************************)
(* the SIMD program: Matrix3fmm MA and MB and Vector3fmm v made by the     *)
(* factories, the constructors and a product; then one call                *)
(***************************************************************************)
FmmMatList ==
    << translationfmm(I(1), I(2), I(1)),
       rotatefmm("Z", AngleTable[2].theta),
       Matrix3fmmDefault,
       opMulMMfmm(rotatefmm("X", AngleTable[4].theta),
                  translationfmm(I(1), I(2), I(3))),
       scalefmm(I(2), I(3), I(5)),
       opMulMMfmm(opMulMMfmm(rotatefmm("Y", AngleTable[5].theta),
                             scalefmm(I(2), I(3), I(5))),
                  translationfmm(I(-1), I(0), I(4))),
       translationfmm(val, FMul(I(2), val), FMul(I(3), val)) >>
FmmMatPool == {FmmMatList[i] : i \in 1..NMat}

FmmVecList ==
    << Vector3fmm(I(1), I(1), I(1)), Vector3fmm(I(1), I(2), I(3)),
       Vector3fmm(val, FMul(I(2), val), FMul(I(3), val)),
       Vector3fmm(I(-2), I(5), I(1)), MkV(F0, F0, F0, F1),
       Vector3fmm(I(0), I(0), I(1)), Vector3fmm(I(1), I(0), I(0)) >>
FmmVecPool == {FmmVecList[i] : i \in 1..NVec}

InitFmm ==
    /\ op = "init" /\ args = <<>> /\ n = 0
    /\ a = Vector3Default /\ b = Vector3Default /\ c = Vector3Default
    /\ outcome = NotCalled
    /\ MA \in FmmMatPool /\ MB \in FmmMatPool /\ MR = Matrix3fmmDefault
    /\ ret = GetThrown("not_called")
    /\ v \in FmmVecPool /\ vr = MkV(F0, F0, F0, F1)

(* MA * MB;  v * MA;  MA * v *)
FmmMul ==
    /\ op = "init"
    /\ \/ op' = "mulMM" /\ MR' = opMulMMfmm(MA, MB) /\ vr' = vr
       \/ op' = "mulVM" /\ vr' = opMulVMfmm(v, MA) /\ MR' = MR
       \/ op' = "mulMV" /\ vr' = opMulMVfmm(MA, v) /\ MR' = MR
    /\ UNCHANGED <<args, n, a, b, c, outcome, MA, MB, ret, v>>

(* the factories, given X(v), Y(v) and Z(v) or an angle; MA.get(r, col) *)
FmmFactoryGet ==
    /\ op = "init"
    /\ \/ /\ op' = "Matrix3fmm" /\ args' = <<>>
          /\ MR' = Matrix3fmmDefault /\ ret' = ret
       \/ /\ op' = "translation" /\ args' = <<X(v), Y(v), Z(v)>>
          /\ MR' = translationfmm(X(v), Y(v), Z(v)) /\ ret' = ret
       \/ /\ op' = "scale" /\ args' = <<X(v), Y(v), Z(v)>>
          /\ MR' = scalefmm(X(v), Y(v), Z(v)) /\ ret' = ret
       \/ \E axis \in Axes, theta \in Thetas :
             /\ op' = "rotate" /\ args' = <<axis, theta>>
             /\ MR' = rotatefmm(axis, theta) /\ ret' = ret
       \/ \E r \in Indices, col \in Indices :
             /\ op' = "get" /\ args' = <<r, col>>
             /\ ret' = getfmm(MA, r, col) /\ MR' = MR
    /\ UNCHANGED <<n, a, b, c, outcome, MA, MB, v, vr>>

SpecFmm == InitFmm /\ [][FmmMul \/ FmmFactoryGet]_vars


(***************************************************************************)
(* the transform program: MA is the default matrix, then the product of MA *)
(* with a matrix a factory returns, or with itself, or a copy of MA, again *)
(* and again; MA * v at any time.  args records the calls made.            *)
(***************************************************************************)
(* the matrices the factories return: the scale is by 2^64, 3 and 5 *)
FactoryList ==
    << <<"translation", translation(I(1), I(2), I(3))>>,
       <<"scale", scale(Fl(0, 8388608, 41), I(3), I(5))>>,
       <<"rotateX", rotateX(AngleTable[4].theta)>>,
       <<"rotateY", rotateY(AngleTable[5].theta)>>,
       <<"rotateZ", rotateZ(AngleTable[2].theta)>> >>
Factories == {FactoryList[i] : i \in 1..Len(FactoryList)}

InitMat ==
    /\ op = "init" /\ args = <<>> /\ n = 0
    /\ a = Vector3Default /\ b = Vector3Default /\ c = Vector3Default
    /\ outcome = NotCalled
    /\ MA = Matrix3Default /\ MB = Matrix3Default /\ MR = Matrix3Default
    /\ ret = GetThrown("not_called")
    /\ v \in {VecList[2], VecList[5]} /\ vr = Vector3Default

(* MA = MA * F;  MA = MA * MA;  MA = Matrix3(MA) *)
MatProduct ==
    /\ n < MaxOps
    /\ \/ \E f \in Factories :
             /\ op' = "mulMM" /\ args' = Append(args, f[1])
             /\ MB' = f[2] /\ MA' = opMulMM(MA, f[2])
       \/ /\ op' = "mulMM" /\ args' = Append(args, "square")
          /\ MB' = MB /\ MA' = opMulMM(MA, MA)
       \/ /\ op' = "copyM" /\ args' = Append(args, "copy")
          /\ MB' = MB /\ MA' = Matrix3Copy(MA)
    /\ n' = n + 1
    /\ UNCHANGED <<a, b, c, outcome, MR, ret, v, vr>>

(* MA * v *)
MatMulMV ==
    /\ n < MaxOps
    /\ op' = "mulMV" /\ vr' = opMulMV(MA, v)
    /\ n' = n + 1
    /\ UNCHANGED <<args, a, b, c, outcome, MA, MB, MR, ret, v>>

SpecMat == InitMat /\ [][MatProduct \/ MatMulMV]_vars


(***************************************************************************)
(* the orders program: the points a, b, c of the circle program, then      *)
(* circle3pts(a, b, c) and circle3pts on the same points in another order; *)
(* outcome is that of the first call, ret that of the second, n the order  *)
(***************************************************************************)
Orders ==
    << <<1, 3, 2>>, <<2, 1, 3>>, <<2, 3, 1>>, <<3, 1, 2>>, <<3, 2, 1>> >>

CallInOrder ==
    /\ op = "init"
    /\ \E k \in 1..Len(Orders) :
          LET pts == <<a, b, c>>
          IN  /\ op' = "circle3pts" /\ n' = k
              /\ outcome' = circle3pts(a, b, c)
              /\ ret' = circle3pts(pts[Orders[k][1]], pts[Orders[k][2]],
                                   pts[Orders[k][3]])
    /\ UNCHANGED <<args, a, b, c, MA, MB, MR, v, vr>>

SpecOrder == InitCircle /\ [][CallInOrder]_vars


(***************************************************************************)
(* Properties of circle3pts, stated on a run of the circle program         *)
(***************************************************************************)
(* the grid displacement from point i to point j of the run, Z included *)
GridDir(i, j) ==
    <<args[j][1] - args[i][1], args[j][2] - args[i][2],
      ZList[args[5]][j] - ZList[args[5]][i]>>
(* a, b and c lie on one line of the plane, resp. of space: scaling the    *)
(* axes by the unit keeps lines                                            *)
ColinearXY ==
    GridDir(1, 2)[1] * GridDir(2, 3)[2] = GridDir(1, 2)[2] * GridDir(2, 3)[1]
Colinear ==
    /\ ColinearXY
    /\ GridDir(1, 2)[2] * GridDir(2, 3)[3] = GridDir(1, 2)[3] * GridDir(2, 3)[2]
    /\ GridDir(1, 2)[3] * GridDir(2, 3)[1] = GridDir(1, 2)[1] * GridDir(2, 3)[3]
InXYPlane == Z(a) = F0 /\ Z(b) = F0 /\ Z(c) = F0
Called == op = "circle3pts"

(* the distance between two points, without the shortcuts of length() *)
Dist(p, q) ==
    FSqrt(FAdd(FAdd(FMul(FSub(X(p), X(q)), FSub(X(p), X(q))),
                    FMul(FSub(Y(p), Y(q)), FSub(Y(p), Y(q)))),
               FMul(FSub(Z(p), Z(q)), FSub(Z(p), Z(q)))))
Equidistant(ct) ==
    /\ fpequal(Dist(ct, a), Dist(ct, b))
    /\ fpequal(Dist(ct, b), Dist(ct, c))
    /\ fpequal(Dist(ct, a), Dist(ct, c))
IsTestTriple == args = << <<1, 1>>, <<2, 0>>, <<3, 1>>, 1, 1 >>

(* C1: for any three non-colinear points of the X,Y plane circle3pts       *)
(* returns a point (x, y, 0) equidistant from a, b and c within 1e-6, and  *)
(* (1,1),(2,0),(3,1) gives (2,1).                                          *)
C1_CenterOfNonColinear ==
    (Called /\ InXYPlane /\ ~ColinearXY) =>
        /\ outcome.thrown = "none"
        /\ Z(outcome.value) = F0
        /\ Equidistant(outcome.value)
        /\ IsTestTriple => /\ fpequal(X(outcome.value), I(2))
                           /\ fpequal(Y(outcome.value), I(1))

(* a triangle 1/2000000 wide and 4 high: a center with NaN coordinates is  *)
(* returned                                                                *)
C1_FailingInput ==
    /\ Called /\ args = << <<0, 0>>, <<1, 0>>, <<1, 1>>, 3, 1 >>
    /\ outcome.thrown = "none"
    /\ IsNaN(X(outcome.value)) /\ IsNaN(Y(outcome.value))

C3_DegenerateOnlyIfColinear ==
    (Called /\ outcome.thrown = "degenerate_error") => Colinear

(* the right triangle with legs of 1/2000 is refused *)
C3_FailingInput ==
    /\ Called /\ args = << <<0, 0>>, <<1, 0>>, <<0, 1>>, 2, 1 >>
    /\ ~Colinear
    /\ outcome = Thrown("degenerate_error")

(* C4: circle3pts ignores Z: the outcome is the one of the same X,Y with   *)
(* every Z cleared, and a returned center has Z = 0.                       *)
Flat(p) == Vector3(X(p), Y(p), F0)
C4_ZIgnored ==
    Called =>
        /\ outcome = circle3pts(Flat(a), Flat(b), Flat(c))
        /\ outcome.thrown = "none" => Z(outcome.value) = F0
(* (0,0,0), (1,0,0), (2,0,1): refused with every Z cleared, a center with  *)
(* Z in place                                                              *)
C4_FailingInput ==
    /\ Called /\ args = << <<0, 0>>, <<1, 0>>, <<2, 0>>, 1, 2 >>
    /\ outcome.thrown = "none"
    /\ circle3pts(Flat(a), Flat(b), Flat(c)) = Thrown("degenerate_error")

(* the lines L1 and L2 of the call and their determinant d *)
LineAB == circleLine(midpoint(a, b), circlePerp(opSub(b, a)))
LineBC == circleLine(midpoint(b, c), circlePerp(opSub(c, b)))
Determinant(L1, L2) == FSub(FMul(X(L1), Y(L2)), FMul(X(L2), Y(L1)))
Finite(x) == x.k = "fin"

(* C23: whenever circle3pts gets past its colinearity check, the           *)
(* determinant d = L1.X*L2.Y - L2.X*L1.Y is not zero, and the center       *)
(* returned has finite x, y and z: no NaN and no infinity.                 *)
C23_DeterminantNotZero ==
    (Called /\ outcome.thrown = "none") =>
        /\ ~FEq(Determinant(LineAB, LineBC), F0)
        /\ \A i \in 0..3 : Finite(outcome.value[i])
(* (0,0,0), (1,0,0), (2,0,1): not colinear in space, on one line in X,Y;   *)
(* d is 0 and the center has y = 1/0                                       *)
C23_FailingInput ==
    /\ Called /\ args = << <<0, 0>>, <<1, 0>>, <<2, 0>>, 1, 2 >>
    /\ outcome.thrown = "none"
    /\ FEq(Determinant(LineAB, LineBC), F0)
    /\ IsInf(Y(outcome.value))

(* the perpendicular of dir normalizes to the zero direction *)
ZeroPerp(dir) ==
    /\ FEq(X(circlePerp(dir)), F0) /\ FEq(Y(circlePerp(dir)), F0)
    /\ FEq(Z(circlePerp(dir)), F0)

(* C24: a degenerate bisector is a failure: if b-a or c-b is so short that *)
(* its perpendicular normalizes to the zero direction (a = b, or a segment *)
(* of EPS or less), or if d is zero within EPS, circle3pts fails with      *)
(* degenerate_error and returns no value.                                  *)
C24_DegenerateBisector ==
    (Called /\ (\/ ZeroPerp(opSub(b, a)) \/ ZeroPerp(opSub(c, b))
                \/ fpequal(Determinant(LineAB, LineBC), F0))) =>
        outcome = Thrown("degenerate_error")
(* b - a = (5e-7, 0, 0) and c - b = (0, 4, 0): the perpendicular of b - a  *)
(* is snapped to zero and a center is returned                             *)
C24_FailingInput ==
    /\ Called /\ args = << <<2, 0>>, <<3, 0>>, <<3, 1>>, 3, 1 >>
    /\ ZeroPerp(opSub(b, a))
    /\ outcome.thrown = "none"

(***************************************************************************)
(* Properties of Matrix3, stated on a run of the matrix program            *)
(***************************************************************************)
IdentityEntry(r, col) == IF r = col THEN F1 ELSE F0
MatEq(P, Q) == \A r \in 0..3, col \in 0..3 : FEq(P[r][col], Q[r][col])
VecEq(p, q) == \A i \in 0..3 : FEq(p[i], q[i])

(* C6: get(r, c) returns the entry at row r, column c when both are in     *)
(* 0..3 and fails with index_error for every other r or c, negative ones   *)
(* and ones above 3 alike; the matrix is unchanged either way.             *)
C6_GetChecksIndices ==
    [][op' = "get" =>
          /\ MA' = MA
          /\ IF args'[1] \in 0..3 /\ args'[2] \in 0..3
             THEN ret' = [thrown |-> "none", value |-> MA[args'[1]][args'[2]]]
             ELSE ret'.thrown = "index_error"]_vars
C6_Witness ==
    /\ op = "get" /\ args = <<-2, 0>> /\ ret.thrown = "index_error"
    /\ MA = MatList[4]

(* C7: the default Matrix3 is the identity; translation(dx,dy,dz) is the   *)
(* identity except (0,3)=dx, (1,3)=dy, (2,3)=dz; scale(sx,sy,sz) is the    *)
(* identity except (0,0)=sx, (1,1)=sy, (2,2)=sz.                           *)
C7_FactoryEntries ==
    /\ op = "Matrix3" =>
          \A r \in 0..3, col \in 0..3 : MR[r][col] = IdentityEntry(r, col)
    /\ op = "translation" =>
          \A r \in 0..3, col \in 0..3 :
              MR[r][col] = IF col = 3 /\ r < 3 THEN args[r + 1]
                           ELSE IdentityEntry(r, col)
    /\ op = "scale" =>
          \A r \in 0..3, col \in 0..3 :
              MR[r][col] = IF r = col /\ r < 3 THEN args[r + 1]
                           ELSE IdentityEntry(r, col)
C7_Witness ==
    /\ op = "translation" /\ args = <<I(-1), I(0), I(4)>>
    /\ MR[0][3] = I(-1) /\ MR[2][3] = I(4) /\ MR[3][2] = F0

(* C8: with c = cos(theta) and s = sin(theta), rotateX is the identity     *)
(* except (1,1)=(2,2)=c, (1,2)=-s, (2,1)=s; rotateY except (0,0)=(2,2)=c,  *)
(* (0,2)=s, (2,0)=-s; rotateZ except (0,0)=(1,1)=c, (0,1)=-s, (1,0)=s.     *)
RotationEntries(p, q, sgn) ==
    \A r \in 0..3, col \in 0..3 :
        MR[r][col] =
            IF (r = p /\ col = p) \/ (r = q /\ col = q) THEN Cos(args[1])
            ELSE IF r = p /\ col = q
                 THEN (IF sgn = 1 THEN Sin(args[1]) ELSE FNeg(Sin(args[1])))
            ELSE IF r = q /\ col = p
                 THEN (IF sgn = 1 THEN FNeg(Sin(args[1])) ELSE Sin(args[1]))
            ELSE IdentityEntry(r, col)
C8_RotationSigns ==
    /\ op = "rotateX" => RotationEntries(1, 2, -1)
    /\ op = "rotateY" => RotationEntries(0, 2, 1)
    /\ op = "rotateZ" => RotationEntries(0, 1, -1)
C8_Witness ==
    /\ op = "rotateY" /\ args = <<AngleTable[2].theta>>
    /\ MR[0][2] = F1 /\ MR[2][0] = FNeg(F1)

(* C9: the default matrix I is the multiplicative identity: I*M == M and   *)
(* M*I == M for every matrix M, v*I == v and I*v == v for every vector v,  *)
(* on all components.                                                      *)
C9_IdentityIsNeutral ==
    /\ (op = "mulMM" /\ MA = Matrix3Default) => MatEq(MR, MB)
    /\ (op = "mulMM" /\ MB = Matrix3Default) => MatEq(MR, MA)
    /\ (op = "mulVM" /\ MA = Matrix3Default) => VecEq(vr, v)
    /\ (op = "mulMV" /\ MA = Matrix3Default) => VecEq(vr, v)
C9_Witness ==
    /\ op = "mulMM" /\ MA = Matrix3Default /\ MB = MatList[4]
    /\ MatEq(MR, MatList[4])

(* C10: Matrix*Matrix is the row-by-column product: (A*B)(i,j) is the sum  *)
(* over k of A(i,k)*B(k,j), and neither operand is modified.  The sum is   *)
(* taken in the order k = 0, 1, 2, 3; on matrices of whole numbers, where  *)
(* no sum is rounded, it is the sum of the integers.                       *)
IsWhole(x) == IsZero(x) \/ (x.k = "fin" /\ x.e <= 0 /\ x.e >= -23
                              /\ x.m % 2^(-x.e) = 0)
Whole(x) == IF IsZero(x) THEN 0
            ELSE (IF x.s = 1 THEN -1 ELSE 1) * (x.m \div 2^(-x.e))
WholeMatrix(P) == \A r \in 0..3, col \in 0..3 : IsWhole(P[r][col])
RowByColumn(P, Q, i, j) ==
    FAdd(FAdd(FAdd(FMul(P[i][0], Q[0][j]), FMul(P[i][1], Q[1][j])),
              FMul(P[i][2], Q[2][j])),
         FMul(P[i][3], Q[3][j]))
WholeRowByColumn(P, Q, i, j) ==
    Whole(P[i][0]) * Whole(Q[0][j]) + Whole(P[i][1]) * Whole(Q[1][j])
    + Whole(P[i][2]) * Whole(Q[2][j]) + Whole(P[i][3]) * Whole(Q[3][j])
C10_RowByColumn ==
    [][op' = "mulMM" =>
          /\ MA' = MA /\ MB' = MB
          /\ \A i \in 0..3, j \in 0..3 :
                /\ MR'[i][j] = RowByColumn(MA, MB, i, j)
                /\ (WholeMatrix(MA) /\ WholeMatrix(MB)) =>
                      FEq(MR'[i][j], I(WholeRowByColumn(MA, MB, i, j)))]_vars
C10_Witness ==
    /\ op = "mulMM" /\ MA = MatList[1] /\ MB = MatList[5]
    /\ MR[0][0] = I(2) /\ MR[1][1] = I(3) /\ MR[2][2] = I(5)
    /\ MR[0][3] = I(1) /\ MR[1][3] = I(2) /\ MR[2][3] = I(3)

LastColumnOfIdentity(P) ==
    FEq(P[0][3], F0) /\ FEq(P[1][3], F0) /\ FEq(P[2][3], F0) /\ P[3][3] = F1
LastRowOfIdentity(P) ==
    FEq(P[3][0], F0) /\ FEq(P[3][1], F0) /\ FEq(P[3][2], F0) /\ P[3][3] = F1

Symmetric(P) == \A r \in 0..3, col \in 0..3 : P[r][col] = P[col][r]
WholeVector(p) == \A i \in 0..3 : IsWhole(p[i])
RowSum(p, P, j) ==
    FAdd(FAdd(FAdd(FMul(p[0], P[0][j]), FMul(p[1], P[1][j])),
              FMul(p[2], P[2][j])),
         FMul(p[3], P[3][j]))
ColumnSum(P, p, i) ==
    FAdd(FAdd(FAdd(FMul(P[i][0], p[0]), FMul(P[i][1], p[1])),
              FMul(P[i][2], p[2])),
         FMul(P[i][3], p[3]))
WholeRowSum(p, P, j) ==
    Whole(p[0]) * Whole(P[0][j]) + Whole(p[1]) * Whole(P[1][j])
    + Whole(p[2]) * Whole(P[2][j]) + Whole(p[3]) * Whole(P[3][j])
WholeColumnSum(P, p, i) ==
    Whole(P[i][0]) * Whole(p[0]) + Whole(P[i][1]) * Whole(p[1])
    + Whole(P[i][2]) * Whole(p[2]) + Whole(P[i][3]) * Whole(p[3])

(* C11: v*M takes v as a row: component j of the result, for j = 0..3      *)
(* (x, y, z, w), is the sum over i of v[i]*M(i,j); M*v takes v as a        *)
(* column: component i is the sum over j of M(i,j)*v[j].  On whole numbers *)
(* the sums are the sums of the integers.  When M is symmetric the two     *)
(* products of the same v and M are equal.                                 *)
C11_RowAndColumnProducts ==
    /\ op = "mulVM" =>
          /\ \A j \in 0..3 :
                /\ vr[j] = RowSum(v, MA, j)
                /\ (WholeVector(v) /\ WholeMatrix(MA)) =>
                      FEq(vr[j], I(WholeRowSum(v, MA, j)))
          /\ Symmetric(MA) => vr = opMulMV(MA, v)
    /\ op = "mulMV" =>
          /\ \A i \in 0..3 :
                /\ vr[i] = ColumnSum(MA, v, i)
                /\ (WholeVector(v) /\ WholeMatrix(MA)) =>
                      FEq(vr[i], I(WholeColumnSum(MA, v, i)))
          /\ Symmetric(MA) => vr = opMulVM(v, MA)
C11_Witness ==
    /\ op = "mulVM" /\ MA = MatList[5] /\ v = VecList[2]
    /\ vr = MkV(I(2), I(6), I(15), I(1))
    /\ Symmetric(MA) /\ vr = opMulMV(MA, v)

(* each of x, y, z, w of p is within EPS of that of q *)
VecNear(p, q) == \A i \in 0..3 : fpequal(p[i], q[i])
HalfPi == AngleTable[2].theta
xunit == Vector3(I(1), I(0), I(0))

(* C12: the two orders of multiplication differ for a rotation.  With      *)
(* RZ = rotateZ(pi/2) and v = (1,0,0,1), RZ*v is (cos, sin, 0, 1) and v*RZ *)
(* is (cos, -sin, 0, 1); sin is 1 and cos is 0 within EPS, so RZ*v is      *)
(* (0,1,0,1) and v*RZ is (0,-1,0,1) within EPS, with y and w exact.        *)
C12_OrdersDiffer ==
    /\ (op = "mulMV" /\ MA = rotateZ(HalfPi) /\ v = xunit) =>
          /\ VecEq(vr, MkV(Cos(HalfPi), Sin(HalfPi), F0, F1))
          /\ VecNear(vr, MkV(F0, F1, F0, F1))
          /\ Y(vr) = F1 /\ W(vr) = F1
          /\ ~VecNear(vr, opMulVM(v, MA))
    /\ (op = "mulVM" /\ MA = rotateZ(HalfPi) /\ v = xunit) =>
          /\ VecEq(vr, MkV(Cos(HalfPi), FNeg(Sin(HalfPi)), F0, F1))
          /\ VecNear(vr, MkV(F0, FNeg(F1), F0, F1))
          /\ Y(vr) = FNeg(F1) /\ W(vr) = F1
          /\ ~VecNear(vr, opMulMV(MA, v))
C12_Witness ==
    /\ op = "mulVM" /\ MA = rotateZ(HalfPi) /\ v = xunit
    /\ Y(vr) = FNeg(F1) /\ fpequal(X(vr), F0) /\ ~FEq(X(vr), F0)

(* C15: a translation applied in column form moves the point: for every v  *)
(* with W() = 1 and every dx, dy, dz, translation(dx,dy,dz) * v is         *)
(* (x+dx, y+dy, z+dz, 1), and v is unchanged; on whole numbers the sums    *)
(* are the sums of the integers.                                           *)
C15_TranslationMovesPoint ==
    [][(op' = "translate" /\ W(v) = F1) =>
          /\ v' = v
          /\ W(vr') = F1
          /\ \A i \in 0..2 :
                /\ FEq(vr'[i], FAdd(v[i], args'[i + 1]))
                /\ IsWhole(v[i]) =>
                      FEq(vr'[i], I(Whole(v[i]) + Whole(args'[i + 1])))]_vars
C15_Witness ==
    /\ op = "translate" /\ v = VecList[2] /\ args = <<I(1), I(2), I(1)>>
    /\ vr = MkV(I(2), I(4), I(4), I(1))

(* C16: a default-constructed vector is (0,0,0,1); the constructor with    *)
(* two arguments gives (x, y, 0, 1) and the one with three (x, y, z, 1);   *)
(* a copy and an assignment of a Vector3 or a Matrix3 give an object with  *)
(* every component that of the source, bit for bit, and leave the source   *)
(* unchanged; a self-assignment leaves the object unchanged.               *)
C16_ConstructAndCopy ==
    [][/\ op' = "Vector3" => vr' = MkV(F0, F0, F0, F1)
       /\ op' = "Vector3xy" =>
             /\ X(vr') = args'[1] /\ Y(vr') = args'[2]
             /\ Z(vr') = F0 /\ W(vr') = F1
       /\ op' = "Vector3xyz" =>
             /\ X(vr') = args'[1] /\ Y(vr') = args'[2]
             /\ Z(vr') = args'[3] /\ W(vr') = F1
       /\ op' \in {"copy", "assign"} =>
             /\ \A i \in 0..3 : vr'[i] = v[i]
             /\ v' = v
       /\ op' = "selfAssign" => v' = v
       /\ op' \in {"copyM", "assignM"} =>
             /\ \A r \in 0..3, col \in 0..3 : MR'[r][col] = MA[r][col]
             /\ MA' = MA
       /\ op' = "selfAssignM" => MA' = MA]_vars
C16_Witness ==
    /\ op = "copy" /\ v = VecList[4]
    /\ vr = MkV(I(1), I(0), I(0), I(2))

yunit == Vector3(I(0), I(1), I(0))
zunit == Vector3(I(0), I(0), I(1))
UnitAxes == {xunit, yunit, zunit}
WholeXYZ(p) == IsWhole(X(p)) /\ IsWhole(Y(p)) /\ IsWhole(Z(p))

(* C17: dot(a,b) is a.x*b.x + a.y*b.y + a.z*b.z, summed in this order; on  *)
(* whole numbers it is the sum of the integers, so the operands are not    *)
(* normalized.  w has no part in it, and dot(a,b) = dot(b,a).  For the     *)
(* unit axis vectors the dot product of two different ones is 0 and that   *)
(* of one with itself is 1.                                                *)
C17_DotProduct ==
    op = "dot" =>
        /\ ret.thrown = "none"
        /\ ret.value = FAdd(FAdd(FMul(X(v), X(args[1])),
                                 FMul(Y(v), Y(args[1]))),
                            FMul(Z(v), Z(args[1])))
        /\ (WholeXYZ(v) /\ WholeXYZ(args[1])) =>
              FEq(ret.value, I(Whole(X(v)) * Whole(X(args[1]))
                               + Whole(Y(v)) * Whole(Y(args[1]))
                               + Whole(Z(v)) * Whole(Z(args[1]))))
        /\ ret.value = dot(args[1], v)
        /\ ret.value = dot(MkV(X(v), Y(v), Z(v), F0), args[1])
        /\ (v \in UnitAxes /\ args[1] \in UnitAxes) =>
              ret.value = IF v = args[1] THEN F1 ELSE F0
C17_Witness ==
    /\ op = "dot" /\ v = VecList[2] /\ args = <<VecList[4]>>
    /\ ret.value = I(1) /\ W(args[1]) = I(2)

MatNear(P, Q) ==
    \A r \in 0..3, col \in 0..3 : fpequal(P[r][col], Q[r][col])

(* C13: for each axis A and every angle theta, rotateA(theta) *            *)
(* rotateA(-theta) and rotateA(-theta) * rotateA(theta) are the identity   *)
(* matrix, every entry within EPS.                                         *)
C13_RotationInverse ==
    op \in {"forthBack", "backForth"} => MatNear(MR, Matrix3Default)
C13_Witness ==
    /\ op = "backForth" /\ args = <<"Y", AngleTable[8].theta>>
    /\ MatNear(MR, Matrix3Default)
    /\ ~MatNear(MA, Matrix3Default) /\ ~MatNear(MA, MB)

(* C14: for every angle theta, rotateX(pi/2) * rotateZ(theta) * xunit and  *)
(* rotateY(-theta) * xunit are equal within EPS, both being                *)
(* (cos theta, 0, sin theta, 1) within EPS; for theta = pi/4 both are      *)
(* (sqrt(2)/2, 0, sqrt(2)/2) within EPS.                                   *)
QuarterPi == AngleTable[4].theta
HalfSqrt2 == FDiv(FSqrt(F2), F2)
C14_CompositionOrder ==
    (op \in {"rotateZX", "rotateYBack"} /\ v = xunit) =>
        /\ VecNear(vr, MkV(Cos(args[2]), F0, Sin(args[2]), F1))
        /\ op = "rotateZX" =>
              VecNear(vr, opMulMV(rotateY(FNeg(args[2])), v))
        /\ args[2] = QuarterPi => VecNear(vr, MkV(HalfSqrt2, F0, HalfSqrt2, F1))
C14_Witness ==
    /\ op = "rotateZX" /\ v = xunit /\ args = <<"Z", QuarterPi>>
    /\ VecNear(vr, MkV(HalfSqrt2, F0, HalfSqrt2, F1))
    /\ VecNear(vr, opMulMV(rotateY(FNeg(QuarterPi)), xunit))

(***************************************************************************)
(* Properties of the sums and differences, stated on a run of the point    *)
(* program                                                                 *)
(***************************************************************************)
(* x, y, z of r are those of p plus, resp. minus, those of q, and w is 1 *)
SumOf(p, q, r) ==
    /\ W(r) = F1
    /\ \A i \in 0..2 :
          /\ FEq(r[i], FAdd(p[i], q[i]))
          /\ (IsWhole(p[i]) /\ IsWhole(q[i])) =>
                FEq(r[i], I(Whole(p[i]) + Whole(q[i])))
DifferenceOf(p, q, r) ==
    /\ W(r) = F1
    /\ \A i \in 0..2 :
          /\ FEq(r[i], FSub(p[i], q[i]))
          /\ (IsWhole(p[i]) /\ IsWhole(q[i])) =>
                FEq(r[i], I(Whole(p[i]) - Whole(q[i])))

(* C19: Vector+Vector is a Vector, Point+Vector and Vector+Point are a     *)
(* Point, Vector-Vector and Point-Point are a Vector; each is the sum,     *)
(* resp. difference, of x, y, z with w = 1; Point+Vector and Vector+Point  *)
(* of the same operands are the same Point; Point+Point matches no         *)
(* operator.                                                               *)
C19_SumsAndDifferences ==
    /\ (op = "+" /\ a.type = "Vector3" /\ b.type = "Vector3") =>
          /\ outcome.thrown = "none" /\ outcome.value.type = "Vector3"
          /\ SumOf(a.m_v, b.m_v, outcome.value.m_v)
    /\ (op = "+" /\ a.type # b.type) =>
          /\ outcome.thrown = "none" /\ outcome.value.type = "Point3"
          /\ SumOf(a.m_v, b.m_v, outcome.value.m_v)
          /\ outcome = Plus(b, a)
    /\ (op = "+" /\ a.type = "Point3" /\ b.type = "Point3") =>
          outcome.thrown = "no_match"
    /\ (op = "-" /\ a.type = b.type) =>
          /\ outcome.thrown = "none" /\ outcome.value.type = "Vector3"
          /\ DifferenceOf(a.m_v, b.m_v, outcome.value.m_v)
C19_Witness ==
    /\ op = "-"
    /\ a = Typed("Point3", Point3(I(0), I(2), I(0)))
    /\ b = Typed("Point3", Point3(I(-2), I(0), I(0)))
    /\ outcome = Returned(Typed("Vector3", Vector3(I(2), I(2), I(0))))

(***************************************************************************)
(* Properties of normalize(), stated on a run of the normalize program     *)
(***************************************************************************)
ZeroXYZ(p) == FEq(X(p), F0) /\ FEq(Y(p), F0) /\ FEq(Z(p), F0)

(* C20: normalize is idempotent: a normalize() of a vector that normalize() *)
(* has returned changes none of x, y, z, w by EPS or more, and in fact     *)
(* leaves each equal (==) to what it was; normalize() of a vector with     *)
(* x = y = z = 0 gives (0,0,0,1).                                          *)
C20_NormalizeIdempotent ==
    [][/\ (op = "normalize" /\ op' = "normalize") =>
             (VecNear(v', v) /\ VecEq(v', v))
       /\ (op' = "normalize" /\ ZeroXYZ(v)) =>
             v' = MkV(F0, F0, F0, F1)]_vars
C20_Witness ==
    /\ op = "normalize" /\ n = 2
    /\ VecNear(v, MkV(HalfSqrt2, HalfSqrt2, F0, F1))
    /\ ~VecEq(v, MkV(I(1), I(1), I(0), I(1)))

(* x, y, z of q have the signs of those of p and are in proportion to      *)
(* them: the cross product of q and p is zero to within EPS * len          *)
SameDirection(p, q, len) ==
    /\ \A i \in 0..2 :
          /\ IsZero(p[i]) <=> IsZero(q[i])
          /\ p[i].s = q[i].s
          /\ FLe(FAbs(cross(q, p)[i]), FMul(EPS, len))

(* C21: for every vector whose length is greater than EPS,                 *)
(* v.normalize().length() is within EPS of 1 and the direction of          *)
(* (x, y, z) is that of v before the call; the length is taken on the      *)
(* receiver, which normalize() returns.                                    *)
C21_NormalizedLengthIsOne ==
    [][(op' = "normalizeLength" /\ FLt(EPS, length(v))) =>
          /\ fpequal(ret'.value, F1)
          /\ ret'.value = length(v')
          /\ SameDirection(v, v', length(v))]_vars
(* a vector with x = 2^64: x*x is past the largest float *)
C21_FailingInput ==
    /\ op = "normalizeLength" /\ n = 1
    /\ args = <<Vector3(Fl(0, 8388608, 41), F0, F0)>>
    /\ v = MkV(F0, F0, F0, F1) /\ ret.value = F0

(***************************************************************************)
(* Properties of fpequal, stated on a run of the comparison program        *)
(***************************************************************************)
(* C22: fpequal(a, b, eps) is true if and only if |a - b| < eps, a - b     *)
(* being the float difference; a difference equal to eps is not equal.     *)
(* On whole numbers that is |a - b| < eps in the integers.  Without the    *)
(* third argument eps is 1.0e-6.  The result is the same with a and b      *)
(* exchanged, and the call changes nothing else.                           *)
C22_FpequalStrict ==
    [][/\ op' = "fpequal3" =>
             /\ ret'.value = FLt(FAbs(FSub(args[1], args[2])), args[3])
             /\ FEq(FAbs(FSub(args[1], args[2])), args[3]) =>
                   ret'.value = FALSE
             /\ (IsWhole(args[1]) /\ IsWhole(args[2]) /\ IsWhole(args[3])) =>
                   ret'.value = ((IF Whole(args[1]) >= Whole(args[2])
                                  THEN Whole(args[1]) - Whole(args[2])
                                  ELSE Whole(args[2]) - Whole(args[1]))
                                 < Whole(args[3]))
             /\ ret'.value = fpequal3(args[2], args[1], args[3])
       /\ op' = "fpequal" =>
             /\ ret'.value = fpequal3(args[1], args[2], Fl(0, 8796093, -43))
             /\ ret'.value = fpequal(args[2], args[1])
       /\ op' \in {"fpequal", "fpequal3"} =>
             UNCHANGED <<args, n, a, b, c, outcome, MA, MB, MR, v, vr>>]_vars
C22_Witness ==
    /\ op = "fpequal" /\ args[1] = EPS /\ args[2] = F0
    /\ ret.value = FALSE

(***************************************************************************)
(* Properties of length(), stated on a run of the normalize program        *)
(***************************************************************************)
(* x*x + y*y + z*z as length() sums it *)
SumOfSquares(p) ==
    FAdd(FAdd(FMul(X(p), X(p)), FMul(Y(p), Y(p))), FMul(Z(p), Z(p)))

(* C25: length() returns the square root of x*x + y*y + z*z; when the sum  *)
(* of squares is within EPS of 1 it returns exactly 1 without taking the   *)
(* root, and the value returned is the one the root would have given.      *)
C25_LengthShortcut ==
    [][op' = "length" =>
          /\ fpequal(SumOfSquares(v), F1) =>
                /\ ret'.value = F1
                /\ ret'.value = FSqrt(SumOfSquares(v))
          /\ (~fpequal(SumOfSquares(v), F1)
                /\ FLt(EPS, FSqrt(SumOfSquares(v)))) =>
                ret'.value = FSqrt(SumOfSquares(v))]_vars

(* C25 as the code keeps it: length() returns the square root of           *)
(* x*x + y*y + z*z when that root is above EPS; when the sum of squares is *)
(* within EPS of 1 it returns the sum of squares itself, which is within   *)
(* EPS of 1 and within EPS of the root, and is 1 only when the sum is 1;   *)
(* the receiver is unchanged.                                              *)
C25_LengthReturnsSumNearOne ==
    [][op' = "length" =>
          /\ v' = v
          /\ fpequal(SumOfSquares(v), F1) =>
                /\ ret'.value = SumOfSquares(v)
                /\ fpequal(ret'.value, F1)
                /\ fpequal(ret'.value, FSqrt(SumOfSquares(v)))
          /\ (~fpequal(SumOfSquares(v), F1)
                /\ FLt(EPS, FSqrt(SumOfSquares(v)))) =>
                ret'.value = FSqrt(SumOfSquares(v))]_vars
(* x = 1 + 3 ulp: the sum of squares 1 + 6 ulp is returned, the root being *)
(* 1 + 3 ulp                                                               *)
C25_Witness ==
    /\ op = "length" /\ v = Vector3(Fl(0, 8388611, -23), F0, F0)
    /\ ret.value = Fl(0, 8388614, -23)
    /\ FSqrt(SumOfSquares(v)) = Fl(0, 8388611, -23)

(* C26: tiny vectors snap to zero: length() returns 0 when the length      *)
(* computed is EPS or less, so it never returns a value in (0, EPS] nor a  *)
(* negative one; normalize() of a vector whose length() is 0 sets it to    *)
(* (0,0,0,1) without dividing; and normalize() of a vector of finite       *)
(* x, y, z gives no NaN and no infinity.                                   *)
C26_TinySnapsToZero ==
    [][/\ op' = "length" =>
             /\ FLe(FSqrt(SumOfSquares(v)), EPS) => ret'.value = F0
             /\ ret'.value = F0 \/ FLt(EPS, ret'.value)
       /\ op' \in {"normalize", "normalizeLength"} =>
             /\ FEq(length(v), F0) => v' = MkV(F0, F0, F0, F1)
             /\ \A i \in 0..3 : Finite(v'[i])]_vars
C26_Witness ==
    /\ op = "length" /\ v = Vector3(Fl(0, 8796093, -44), F0, F0)
    /\ ret.value = F0

(* C27: every operation except normalize leaves its operands and receiver  *)
(* as they were, its result being a value apart from them; normalize is    *)
(* the one operation that changes an object, that object is its receiver   *)
(* and no other, and it does change a receiver other than (0,0,0,1) whose  *)
(* length is not within EPS of 1.                                          *)
Mutates(p) == ~fpequal(length(p), F1) /\ p # MkV(F0, F0, F0, F1)
C27_OnlyNormalizeMutates ==
    [][/\ op' # "normalize" =>
             a' = a /\ b' = b /\ c' = c /\ MA' = MA /\ MB' = MB
       /\ op' = "normalize" =>
             /\ c' = c /\ MA' = MA /\ MB' = MB
             /\ ret' = ret /\ vr' = vr /\ MR' = MR /\ outcome' = outcome
             /\ args' = <<"a">> => b' = b /\ (Mutates(a) => a' # a)
             /\ args' = <<"b">> => a' = a /\ (Mutates(b) => b' # b)]_vars
C27_Witness ==
    /\ op = "cross" /\ n = 2 /\ vr = cross(a, b) /\ vr # Vector3Default
    /\ fpequal(length(a), F1) /\ fpequal(length(b), F1)
    /\ a # b

(* C28: the SIMD variant matches the scalar one: on operands of equal      *)
(* components the three Matrix3fmm and Vector3fmm products have the        *)
(* components of the Matrix3 and Vector3 products, and the Matrix3fmm      *)
(* factories and get() give what the Matrix3 ones give.                    *)
C28_SimdMatchesScalar ==
    [][/\ op' = "mulMM" => MR' = opMulMM(MA, MB)
       /\ op' = "mulVM" => vr' = opMulVM(v, MA)
       /\ op' = "mulMV" => vr' = opMulMV(MA, v)
       /\ op' = "Matrix3fmm" => MR' = Matrix3Default
       /\ op' = "translation" =>
             MR' = translation(args'[1], args'[2], args'[3])
       /\ op' = "scale" => MR' = scale(args'[1], args'[2], args'[3])
       /\ op' = "rotate" => MR' = rotate(args'[1], args'[2])
       /\ op' = "get" => ret' = get(MA, args'[1], args'[2])]_vars
C28_FailingInput ==
    /\ op = "mulMV" /\ MA = FmmMatList[4] /\ v = Vector3fmm(F1, F1, F1)
    /\ Y(vr) = Fl(1, 11863281, -24)
    /\ Y(opMulMV(MA, v)) = Fl(1, 11863282, -24)
    /\ ~fpequal(FMul(Y(vr), I(1000)), FMul(Y(opMulMV(MA, v)), I(1000)))

(* C29: every matrix made by the default constructor, the factories,       *)
(* copies and products has the bottom row (0,0,0,1), and the product M * v *)
(* of such a matrix with a vector of w = 1 has w = 1.                      *)
BottomRow(m) == m[3] = [col \in 0..3 |-> IF col = 3 THEN F1 ELSE F0]
C29_BottomRowKept ==
    /\ BottomRow(MA)
    /\ (op = "mulMV" /\ W(v) = F1) => W(vr) = F1
C29_FailingInput ==
    /\ args = <<"scale", "square", "square">> /\ op = "mulMV"
    /\ IsInf(opMulMM(FactoryList[2][2], FactoryList[2][2])[0][0])
    /\ IsNaN(MA[3][0]) /\ W(v) = F1 /\ IsNaN(W(vr))

(* C30: the outcome of circle3pts does not depend on the order of its      *)
(* arguments: called on the same three points in another order it throws   *)
(* degenerate_error if and only if the first call throws it, and otherwise *)
(* returns the same center within EPS.                                     *)
SameOutcome(o1, o2) ==
    /\ o1.thrown = o2.thrown
    /\ o1.thrown = "none" => VecNear(o1.value, o2.value)
C30_OrderIndependent ==
    [][op' = "circle3pts" => SameOutcome(outcome', ret')]_vars
C30_FailingInput ==
    /\ op = "circle3pts" /\ args = << <<3, 1>>, <<2, 2>>, <<0, 0>>, 2, 1 >>
    /\ Orders[n] = <<1, 3, 2>>
    /\ outcome.thrown = "none" /\ ret.thrown = "degenerate_error"
    /\ X(outcome.value) = Fl(0, 12884902, -34)
    /\ Y(outcome.value) = Fl(0, 8589937, -35)

=============================================================================
